---- MODULE Spec2Model ----
(***************************************************************************)
(* Verification model of the generative pattern renderer:                  *)
(*   - the pattern animation driver (render-pattern.js): scene life cycle, *)
(*     spawn cursor, hold timer, cross-fade, click and debounced resize;   *)
(*   - the pattern library (patterns.js): Truchet and HatTiling generators.*)
(*                                                                         *)
(* Units.  alpha is kept in thousandths (1.0 = 1000, SCENE_FADE = 15).     *)
(***************************************************************************)
EXTENDS Integers, Sequences, FiniteSets, TLC

VARIABLES
    scene,        \* the active scene object, or Null
    nextScene,    \* the staged scene object, or Null
    frame,        \* frame counter of the loop
    rafId,        \* handle returned by the last requestAnimationFrame
    rafPending,   \* handles of the frame callbacks the host still has to run
    resizeTimer,  \* TRUE while the 250 ms debounce timer is armed
    truchet,      \* the Truchet instance in use, the rng of its last generate
                  \* call, and the calls made on it with what they returned
    hat,          \* the HatTiling instance in use and what its generateTiles
                  \* calls returned
    rosette,      \* the Rosette instance in use and what its build and tile
                  \* calls returned
    isect,        \* the arguments of a lineIntersect call and what it returned
    mkrng,        \* a xorshift generator (makeRng or the rand of generate): its
                  \* seed, its state after each draw, and what buildScene drew
    intro,        \* the intro sequence: phase, phase clock, scheduled tick
    anim          \* the ClusterAnimation and CivicCompass instances of the page
                  \* and the frame callbacks they have pending

driverVars == <<scene, nextScene, frame, rafId, rafPending, resizeTimer>>

libVars == <<truchet, hat, rosette, isect>>

pageVars == <<mkrng, intro, anim>>

vars == <<scene, nextScene, frame, rafId, rafPending, resizeTimer, truchet, hat,
          rosette, isect, mkrng, intro, anim>>

----------------------------------------------------------------------------
(* Bounds of the model *)

MaxUnits == 3          \* a scene has 1..MaxUnits drawable units
MaxTilesPerTick == 3   \* tilesPerTick is drawn from 2..MaxTilesPerTick
MaxHold == 2           \* holdLimit is drawn from 1..MaxHold
MaxFrame == 10         \* the loop is followed for MaxFrame frames after a (re)start

MaxViewport == 2       \* generators get width and height from 1..MaxViewport
MaxCalls == 2          \* generate calls followed on one Truchet instance
MaxCoord == 2          \* segment end points have coordinates in 0..MaxCoord
SatFrames == 2         \* in the long runs frame is counted up to SatFrames only
LongHold == 70         \* the long holdLimit: the scene reaches alpha 1 first

UnitCounts == 1..MaxUnits
TilesPerTicks == 2..MaxTilesPerTick
HoldLimits == 1..MaxHold

----------------------------------------------------------------------------
(* Pattern animation driver *)

Null == [null |-> TRUE]

SceneIds == 0..2

SCENE_FADE == 15

AlphaOne == 1000

Max(a, b) == IF a >= b THEN a ELSE b

Min(a, b) == IF a <= b THEN a ELSE b

\* Identity of the object literal a call of buildScene returns: an identity
\* not carried by any scene that is still referenced.
FreshId(s, ns) ==
    CHOOSE i \in SceneIds :
        /\ (s # Null => i # s.id)
        /\ (ns # Null => i # ns.id)
        /\ \A j \in SceneIds :
               ((s # Null => j # s.id) /\ (ns # Null => j # ns.id)) => i <= j

\* buildScene returning a scene that is already fully visible.
buildSceneVisible(id, n, tpt, hold) ==
    [ id           |-> id,
      tiles        |-> [i \in 1..n |-> -1],
      tilesPerTick |-> tpt,
      holdLimit    |-> hold,
      spawnIdx     |-> 0,
      done         |-> FALSE,
      holdAge      |-> 0,
      alpha        |-> AlphaOne,
      fadingOut    |-> FALSE ]

\* styleUnit gives every unit born = -1; buildScene returns the scene fields.
buildScene(id, n, tpt, hold) ==
    [ id           |-> id,
      tiles        |-> [i \in 1..n |-> -1],
      tilesPerTick |-> tpt,
      holdLimit    |-> hold,
      spawnIdx     |-> 0,
      done         |-> FALSE,
      holdAge      |-> 0,
      alpha        |-> 0,
      fadingOut    |-> FALSE ]

\* triggerNewScene without the fadingOut / nextScene guard.
triggerNewSceneUnguarded(s, ns, new) ==
    IF s # Null
    THEN <<[s EXCEPT !.fadingOut = TRUE], new>>
    ELSE <<s, ns>>

\* triggerNewScene staging the new scene without marking the active one.
triggerNewSceneNoMark(s, ns, new) ==
    IF s # Null /\ ~s.fadingOut /\ ns = Null
    THEN <<s, new>>
    ELSE <<s, ns>>

\* triggerNewScene: returns the pair <<scene, nextScene>>; new is the scene
\* buildScene would return.
triggerNewScene(s, ns, new) ==
    IF s # Null /\ ~s.fadingOut /\ ns = Null
    THEN <<[s EXCEPT !.fadingOut = TRUE], new>>
    ELSE <<s, ns>>

\* The cross-fade section swapping as soon as the scene is fading out.
crossFadeEarly(s, ns) ==
    IF s # Null /\ s.fadingOut
    THEN <<IF ns # Null THEN [ns EXCEPT !.alpha = 0] ELSE ns, Null>>
    ELSE IF s # Null /\ s.alpha < AlphaOne
    THEN <<[s EXCEPT !.alpha = Min(AlphaOne, s.alpha + SCENE_FADE)], ns>>
    ELSE <<s, ns>>

\* The cross-fade section letting the swapped-in scene rise in the same frame.
crossFadeRiseOnSwap(s, ns) ==
    IF s # Null /\ s.fadingOut
    THEN LET a == Max(0, s.alpha - SCENE_FADE) IN
         IF a <= 0
         THEN <<IF ns # Null THEN [ns EXCEPT !.alpha = SCENE_FADE] ELSE ns, Null>>
         ELSE <<[s EXCEPT !.alpha = a], ns>>
    ELSE IF s # Null /\ s.alpha < AlphaOne
    THEN <<[s EXCEPT !.alpha = Min(AlphaOne, s.alpha + SCENE_FADE)], ns>>
    ELSE <<s, ns>>

\* The cross-fade section of loop: returns <<scene, nextScene>>.
crossFade(s, ns) ==
    IF s # Null /\ s.fadingOut
    THEN LET a == Max(0, s.alpha - SCENE_FADE) IN
         IF a <= 0
         THEN <<IF ns # Null THEN [ns EXCEPT !.alpha = 0] ELSE ns, Null>>
         ELSE <<[s EXCEPT !.alpha = a], ns>>
    ELSE IF s # Null /\ s.alpha < AlphaOne
    THEN <<[s EXCEPT !.alpha = Min(AlphaOne, s.alpha + SCENE_FADE)], ns>>
    ELSE <<s, ns>>

\* The spawn for-loop marking the scene done one unit early.
RECURSIVE spawnLoopDoneEarly(_, _, _)
spawnLoopDoneEarly(s, i, f) ==
    IF i < s.tilesPerTick
    THEN IF s.spawnIdx >= Len(s.tiles) - 1
         THEN [s EXCEPT !.done = TRUE]
         ELSE spawnLoopDoneEarly([s EXCEPT !.tiles[s.spawnIdx + 1] = f,
                                           !.spawnIdx = s.spawnIdx + 1], i + 1, f)
    ELSE s

\* The spawn for-loop leaving the loop without marking the scene done.
RECURSIVE spawnLoopNeverDone(_, _, _)
spawnLoopNeverDone(s, i, f) ==
    IF i < s.tilesPerTick
    THEN IF s.spawnIdx >= Len(s.tiles)
         THEN s
         ELSE spawnLoopNeverDone([s EXCEPT !.tiles[s.spawnIdx + 1] = f,
                                           !.spawnIdx = s.spawnIdx + 1], i + 1, f)
    ELSE s

\* The spawn for-loop stamping units with the previous frame number.
RECURSIVE spawnLoopStampPrev(_, _, _)
spawnLoopStampPrev(s, i, f) ==
    IF i < s.tilesPerTick
    THEN IF s.spawnIdx >= Len(s.tiles)
         THEN [s EXCEPT !.done = TRUE]
         ELSE spawnLoopStampPrev([s EXCEPT !.tiles[s.spawnIdx + 1] = f - 1,
                                           !.spawnIdx = s.spawnIdx + 1], i + 1, f)
    ELSE s

\* The spawn for-loop of loop, from iteration i on, in frame f.
RECURSIVE spawnLoop(_, _, _)
spawnLoop(s, i, f) ==
    IF i < s.tilesPerTick
    THEN IF s.spawnIdx >= Len(s.tiles)
         THEN [s EXCEPT !.done = TRUE]
         ELSE spawnLoop([s EXCEPT !.tiles[s.spawnIdx + 1] = f,
                                  !.spawnIdx = s.spawnIdx + 1], i + 1, f)
    ELSE s

\* The hold section triggering already when holdAge reaches holdLimit.
spawnOrHoldAtLimit(s, ns, f, new) ==
    IF ~s.done
    THEN <<spawnLoop(s, 0, f), ns>>
    ELSE LET h == [s EXCEPT !.holdAge = s.holdAge + 1] IN
         IF h.holdAge >= h.holdLimit /\ ns = Null
         THEN triggerNewScene(h, ns, new)
         ELSE <<h, ns>>

\* The spawn / hold section of loop on a non-null scene: <<scene, nextScene>>.
spawnOrHold(s, ns, f, new) ==
    IF ~s.done
    THEN <<spawnLoop(s, 0, f), ns>>
    ELSE LET h == [s EXCEPT !.holdAge = s.holdAge + 1] IN
         IF h.holdAge > h.holdLimit /\ ns = Null
         THEN triggerNewScene(h, ns, new)
         ELSE <<h, ns>>

\* A handle requestAnimationFrame has not handed out to a live callback.
FreshHandle(pending) == CHOOSE h \in 0..Cardinality(pending) : h \notin pending

\* Does this run of loop() call buildScene (through triggerNewScene)?
loopBuilds(s, ns) ==
    LET cf == crossFade(s, ns) IN
    /\ cf[1] # Null
    /\ cf[1].done
    /\ cf[1].holdAge + 1 > cf[1].holdLimit
    /\ cf[2] = Null
    /\ ~cf[1].fadingOut

\* The values buildScene draws from its generator: unit count, tilesPerTick,
\* holdLimit.
BuildInputs == UnitCounts \X TilesPerTicks \X HoldLimits

NoInput == <<1, 2, 1>>

\* One run of loop(): the host runs pending callback h; f is the value of
\* frame after frame++, inputs are the values a buildScene call may draw.
LoopWith(inputs, f) ==
    /\ \E h \in rafPending :
       \E p \in IF loopBuilds(scene, nextScene) THEN inputs ELSE {NoInput} :
         LET cf  == crossFade(scene, nextScene)
             new == buildScene(FreshId(cf[1], cf[2]), p[1], p[2], p[3])
             sh  == IF cf[1] = Null THEN cf ELSE spawnOrHold(cf[1], cf[2], f, new)
             rest == rafPending \ {h}
             nh  == FreshHandle(rest)
         IN /\ frame' = f
            /\ scene' = sh[1]
            /\ nextScene' = sh[2]
            /\ rafId' = nh
            /\ rafPending' = rest \cup {nh}
    /\ UNCHANGED <<resizeTimer, libVars, pageVars>>

Loop ==
    /\ frame < MaxFrame
    /\ LoopWith(BuildInputs, frame + 1)

\* The click listener: triggerNewScene.
ClickWith(inputs) ==
    /\ \E p \in IF scene # Null /\ ~scene.fadingOut /\ nextScene = Null
                THEN inputs ELSE {NoInput} :
         LET t == triggerNewScene(scene, nextScene,
                    buildScene(FreshId(scene, nextScene), p[1], p[2], p[3]))
         IN /\ scene' = t[1]
            /\ nextScene' = t[2]
    /\ UNCHANGED <<frame, rafId, rafPending, resizeTimer, libVars, pageVars>>

Click == ClickWith(BuildInputs)

\* A window resize event: clearTimeout, then setTimeout(..., 250).
ResizeEvent ==
    /\ resizeTimer' = TRUE
    /\ UNCHANGED <<scene, nextScene, frame, rafId, rafPending, libVars, pageVars>>

\* The debounce callback leaving its timer armed, so that it fires again.
ResizeFireRepeats(inputs) ==
    /\ resizeTimer
    /\ \E p \in inputs :
         LET rest == rafPending \ {rafId}
             nh   == FreshHandle(rest)
         IN /\ scene' = buildScene(FreshId(scene, nextScene), p[1], p[2], p[3])
            /\ nextScene' = Null
            /\ frame' = 0
            /\ rafId' = nh
            /\ rafPending' = rest \cup {nh}
    /\ resizeTimer' = TRUE
    /\ UNCHANGED <<libVars, pageVars>>

\* The debounce callback without cancelAnimationFrame(rafId).
ResizeFireNoCancel(inputs) ==
    /\ resizeTimer
    /\ \E p \in inputs :
         LET nh == FreshHandle(rafPending)
         IN /\ scene' = buildScene(FreshId(scene, nextScene), p[1], p[2], p[3])
            /\ nextScene' = Null
            /\ frame' = 0
            /\ rafId' = nh
            /\ rafPending' = rafPending \cup {nh}
    /\ resizeTimer' = FALSE
    /\ UNCHANGED <<libVars, pageVars>>

\* The debounce timer fires: cancel the frame callback, rebuild, reschedule.
ResizeFireWith(inputs) ==
    /\ resizeTimer
    /\ \E p \in inputs :
         LET rest == rafPending \ {rafId}
             nh   == FreshHandle(rest)
         IN /\ scene' = buildScene(FreshId(scene, nextScene), p[1], p[2], p[3])
            /\ nextScene' = Null
            /\ frame' = 0
            /\ rafId' = nh
            /\ rafPending' = rest \cup {nh}
    /\ resizeTimer' = FALSE
    /\ UNCHANGED <<libVars, pageVars>>

ResizeFire == ResizeFireWith(BuildInputs)

\* State after the DOMContentLoaded handler has run.
DriverInitWith(inputs) ==
    /\ \E p \in inputs : scene = buildScene(0, p[1], p[2], p[3])
    /\ nextScene = Null
    /\ frame = 0
    /\ rafId = 0
    /\ rafPending = {0}
    /\ resizeTimer = FALSE

DriverInit == DriverInitWith(BuildInputs)

\* The driver's variables before the DOMContentLoaded handler has run.
DriverUnstarted ==
    /\ scene = Null
    /\ nextScene = Null
    /\ frame = 0
    /\ rafId = Null
    /\ rafPending = {}
    /\ resizeTimer = FALSE

\* No HatTiling instance has been constructed.
HatIdle == hat = [inst |-> Null, width |-> 0, height |-> 0, calls |-> <<>>]

\* No Rosette instance has been constructed.
RosetteIdle ==
    rosette = [inst |-> Null, width |-> 0, height |-> 0, tiled |-> <<>>, built |-> <<>>]

\* lineIntersect has not been called.
IsectIdle == isect = [args |-> <<>>, called |-> FALSE, out |-> Null]

\* No generator has been made apart from those of the calls followed above.
RngIdle ==
    mkrng = [kind |-> "none", seed |-> 0, x |-> <<0, 0>>, outs |-> <<>>, drawn |-> Null]

\* The intro sequence is not on the page.
IntroIdle ==
    intro = [running |-> FALSE, phase |-> 0, phaseAge |-> 0, globalT0 |-> Null,
             raf |-> Null, pending |-> {}, finished |-> 0, hidden |-> FALSE,
             seen |-> FALSE, size |-> 0, last |-> "none", pt |-> 0]

\* No ClusterAnimation or CivicCompass instance is on the page.
AnimIdle == anim = [inst |-> <<>>, queue |-> {}, last |-> [op |-> "none", k |-> "none"]]

PageIdle == RngIdle /\ IntroIdle /\ AnimIdle

----------------------------------------------------------------------------
(* Truchet (patterns.js).  Lengths are whole pixels; the input sets keep    *)
(* every halved size a whole number, as the halves of the code's sizes are  *)
(* exact in binary floating point.  Angles are in quarter turns (PI/2).     *)
(* splitProb is given in quarters: splitK = 4 * splitProb.                  *)

\* A 32-bit integer is kept as <<hi, lo>>, its upper and lower 16 bits.
Half16 == 65536

RECURSIVE Xor16(_, _)
Xor16(a, b) ==
    IF a = 0 THEN b
    ELSE IF b = 0 THEN a
    ELSE ((a + b) % 2) + (2 * Xor16(a \div 2, b \div 2))

XorBits(x, y) == <<Xor16(x[1], y[1]), Xor16(x[2], y[2])>>

\* n | 0 for an integer n in -2^31 .. 2^31 - 1 (two's complement).
ToInt32(n) ==
    LET low == IF n >= 0 THEN n ELSE (n + 2147483647) + 1
    IN <<(IF n < 0 THEN 32768 ELSE 0) + (low \div Half16), low % Half16>>

\* x << k on a 32-bit integer, 0 < k < 16.
ShiftLeft(x, k) ==
    LET keep == 2 ^ (16 - k) IN
    <<((x[1] % keep) * (2 ^ k)) + (x[2] \div keep), (x[2] % keep) * (2 ^ k)>>

\* x >> k on a 32-bit integer, 16 <= k < 32: the sign bit is propagated.
ShiftRightSigned(x, k) ==
    IF x[1] >= 32768
    THEN <<Half16 - 1, (x[1] \div (2 ^ (k - 16))) + (Half16 - (2 ^ (32 - k)))>>
    ELSE <<0, x[1] \div (2 ^ (k - 16))>>

\* The state after one draw: rng ^= rng << 13; rng ^= rng >> 17; rng ^= rng << 5.
xorshift(x) ==
    LET a == XorBits(x, ShiftLeft(x, 13))
        b == XorBits(a, ShiftRightSigned(a, 17))
    IN XorBits(b, ShiftLeft(b, 5))

\* (x >>> 0) / 0xFFFFFFFF < k / 4, for k in 0..4.
\* With u = x >>> 0: for k < 4 this is u < k * 2^30, for k = 4 it is
\* u < 0xFFFFFFFF.
randLess(x, k) ==
    IF k >= 4
    THEN x # <<Half16 - 1, Half16 - 1>>
    ELSE (x[1] \div 16384) < k

NoRng == <<0, 0>>

\* An rng that is seeded by the first call only and kept between calls.
seedRngOnce(seed, prev) == IF prev = NoRng THEN ToInt32(seed) ELSE prev

\* let rng = seed | 0, on a call whose closure is new; prev is the rng of the
\* previous call (not consulted).
seedRng(seed, prev) == ToInt32(seed)

\* cellArcs giving the arcs the full cell size as radius.
cellArcsFullRadius(x, y, size, isA) ==
    LET r == size IN
    IF isA
    THEN << [type |-> "arc", cx |-> x, cy |-> y + size, r |-> r,
             startAngle |-> -1, endAngle |-> 0, ccw |-> FALSE,
             midX |-> x + (size \div 2), midY |-> y + (size \div 2)],
            [type |-> "arc", cx |-> x + size, cy |-> y, r |-> r,
             startAngle |-> 1, endAngle |-> 2, ccw |-> FALSE,
             midX |-> x + (size \div 2), midY |-> y + (size \div 2)] >>
    ELSE << [type |-> "arc", cx |-> x, cy |-> y, r |-> r,
             startAngle |-> 0, endAngle |-> 1, ccw |-> FALSE,
             midX |-> x + (size \div 2), midY |-> y + (size \div 2)],
            [type |-> "arc", cx |-> x + size, cy |-> y + size, r |-> r,
             startAngle |-> 2, endAngle |-> 3, ccw |-> FALSE,
             midX |-> x + (size \div 2), midY |-> y + (size \div 2)] >>

\* The two arcs of a terminal cell, type A when isA.
cellArcs(x, y, size, isA) ==
    LET r == size \div 2 IN
    IF isA
    THEN << [type |-> "arc", cx |-> x, cy |-> y + size, r |-> r,
             startAngle |-> -1, endAngle |-> 0, ccw |-> FALSE,
             midX |-> x + r, midY |-> y + r],
            [type |-> "arc", cx |-> x + size, cy |-> y, r |-> r,
             startAngle |-> 1, endAngle |-> 2, ccw |-> FALSE,
             midX |-> x + r, midY |-> y + r] >>
    ELSE << [type |-> "arc", cx |-> x, cy |-> y, r |-> r,
             startAngle |-> 0, endAngle |-> 1, ccw |-> FALSE,
             midX |-> x + r, midY |-> y + r],
            [type |-> "arc", cx |-> x + size, cy |-> y + size, r |-> r,
             startAngle |-> 2, endAngle |-> 3, ccw |-> FALSE,
             midX |-> x + r, midY |-> y + r] >>

\* processCell: st = [rng, cmds, draws, log] is the closure state before the
\* call, the result is the closure state after it.  draws counts the calls of
\* rand() so far and log lists the processed cells in the order of their
\* calls, each with the number of outputs consumed before it (first), the
\* number it consumed for the split test (decision) and the outcome (split):
\* both are kept for reference only.  processQuad is the four recursive
\* calls of a split cell from the i-th on: top-left, top-right, bottom-left,
\* bottom-right.
\* (The test on a call's result makes TLC compute it before the next call.)
RECURSIVE processCell(_, _, _, _, _)
RECURSIVE processQuad(_, _, _, _, _, _)
processQuad(t, st, x, y, half, i) ==
    IF i < 4
    THEN LET c == processCell(t, st, x + (i % 2) * half, y + (i \div 2) * half, half)
         IN IF Len(c.cmds) >= 0
            THEN processQuad(t, c, x, y, half, i + 1)
            ELSE c
    ELSE st

\* The closure state after the split test of a cell and its log entry.
afterTest(st, x, y, size, draws, r1, splits) ==
    [rng |-> r1, cmds |-> st.cmds,
     draws |-> st.draws + (IF draws THEN 1 ELSE 0),
     log |-> Append(st.log, [x |-> x, y |-> y, size |-> size, first |-> st.draws,
                             decision |-> IF draws THEN 1 ELSE 0, split |-> splits])]

\* The else branch of processCell: the type draw and the two pushes.
emitArcs(st, x, y, size) ==
    LET r2 == xorshift(st.rng)
    IN [st EXCEPT !.rng = r2, !.draws = st.draws + 1,
                  !.cmds = st.cmds \o cellArcs(x, y, size, randLess(r2, 2))]

\* processCell splitting also cells of exactly the minimum size.
processCellAtMin(t, st, x, y, size) ==
    LET draws  == size >= t.minSize
        r1     == IF draws THEN xorshift(st.rng) ELSE st.rng
        splits == draws /\ randLess(r1, t.splitK)
        st1    == afterTest(st, x, y, size, draws, r1, splits)
    IN IF splits
       THEN processQuad(t, st1, x, y, size \div 2, 0)
       ELSE emitArcs(st1, x, y, size)

\* processCell calling rand() before it tests the size.
processCellDrawFirst(t, st, x, y, size) ==
    LET draws  == TRUE
        r1     == xorshift(st.rng)
        splits == randLess(r1, t.splitK) /\ size > t.minSize
        st1    == afterTest(st, x, y, size, draws, r1, splits)
    IN IF splits
       THEN processQuad(t, st1, x, y, size \div 2, 0)
       ELSE emitArcs(st1, x, y, size)

\* size > this.minSize && rand() < this.splitProb: rand() is called only
\* when the first operand is true.
processCell(t, st, x, y, size) ==
    LET draws  == size > t.minSize
        r1     == IF draws THEN xorshift(st.rng) ELSE st.rng
        splits == draws /\ randLess(r1, t.splitK)
        st1    == afterTest(st, x, y, size, draws, r1, splits)
    IN IF splits
       THEN processQuad(t, st1, x, y, size \div 2, 0)
       ELSE emitArcs(st1, x, y, size)

\* The inner for loop running over the viewport only, without the pad.
RECURSIVE truchetRowNoPad(_, _, _, _, _)
truchetRowNoPad(t, st, x, y, width) ==
    IF x < width
    THEN LET cell == processCell(t, st, x, y, t.baseSize) IN
         IF Len(cell.cmds) >= 0
         THEN truchetRowNoPad(t, cell, x + t.baseSize, y, width)
         ELSE cell
    ELSE st

\* The inner for loop of generate: the cells of row y from column x on.
\* (The test on the cell's result makes TLC compute it before the next cell.)
RECURSIVE truchetRow(_, _, _, _, _)
truchetRow(t, st, x, y, width) ==
    IF x < width + t.baseSize
    THEN LET cell == processCell(t, st, x, y, t.baseSize) IN
         IF Len(cell.cmds) >= 0
         THEN truchetRow(t, cell, x + t.baseSize, y, width)
         ELSE cell
    ELSE st

\* The outer for loop of generate: the rows from y on.
RECURSIVE truchetRows(_, _, _, _, _)
truchetRows(t, st, y, width, height) ==
    IF y < height + t.baseSize
    THEN LET row == truchetRow(t, st, -t.baseSize, y, width) IN
         IF Len(row.cmds) >= 0
         THEN truchetRows(t, row, y + t.baseSize, width, height)
         ELSE row
    ELSE st

\* The sort key of a command, times 4: the squared distance of its cell's
\* midpoint from the viewport centre (width/2, height/2).
sortKey(c, width, height) ==
    (2 * c.midX - width) * (2 * c.midX - width)
    + (2 * c.midY - height) * (2 * c.midY - height)

\* Array.prototype.sort with the distance comparator, a stable sort: the
\* position of element i is the number of elements with a smaller key, plus
\* the number of earlier elements with the same key, plus one.
\* (Appending the empty sequence makes TLC compute a sequence once.)
sortCmds(cmds, width, height) ==
    LET n    == Len(cmds)
        keys == [i \in 1..n |-> sortKey(cmds[i], width, height)] \o <<>>
        rank == [i \in 1..n |->
                    1 + Cardinality({j \in 1..n :
                            keys[j] < keys[i] \/ (j < i /\ keys[j] = keys[i])})]
                \o <<>>
    IN [p \in 1..n |-> cmds[CHOOSE i \in 1..n : rank[i] = p]] \o <<>>

\* generate(width, height, seed) on instance t: the closure state before the
\* sort (rng after the last draw, cmds in emission order, the draw count and
\* the log of processed cells).
truchetEmit(t, width, height, seed, prev) ==
    truchetRows(t, [rng |-> seedRng(seed, prev), cmds |-> <<>>, draws |-> 0,
                    log |-> <<>>], -t.baseSize, width, height)

\* Instances: (baseSize, minSize) pairs whose halved sizes are whole, with
\* splitProb 0, 1/2 or 1.
TruchetSizes == {<<4, 2>>, <<4, 4>>, <<4, 8>>, <<8, 2>>}

SplitKs == {0, 2, 4}

Seeds == {0, 1, 42}

Viewports == 1..MaxViewport

\* new Patterns.Truchet(60, 60, 1), used with generate(60, 60, seed).
ScenarioInstance == [baseSize |-> 60, minSize |-> 60, splitK |-> 4]

ScenarioSide == 60

TruchetInstances ==
    {[baseSize |-> z[1], minSize |-> z[2], splitK |-> k] :
        z \in TruchetSizes, k \in SplitKs}

\* inst.generate(width, height, seed) on the instance and viewport in use.
TruchetGenerate ==
    /\ truchet.inst # Null
    /\ Len(truchet.calls) < MaxCalls
    /\ \E seed \in Seeds :
         LET st == truchetEmit(truchet.inst, truchet.width, truchet.height, seed,
                               truchet.rng)
         IN truchet' = [truchet EXCEPT
                !.rng = st.rng,
                !.calls = Append(@, [seed |-> seed,
                                     cmds |-> sortCmds(st.cmds, truchet.width,
                                                       truchet.height),
                                     draws |-> st.draws,
                                     log |-> st.log])]
    /\ UNCHANGED <<driverVars, hat, rosette, isect, pageVars>>

TruchetIdle ==
    truchet = [inst |-> Null, width |-> 0, height |-> 0, rng |-> NoRng, calls |-> <<>>]

\* A new instance and the viewport it is used with, before any call.
TruchetInit ==
    /\ DriverUnstarted
    /\ HatIdle
    /\ RosetteIdle
    /\ IsectIdle
    /\ PageIdle
    /\ \/ \E t \in TruchetInstances, w \in Viewports, h \in Viewports :
            truchet = [inst |-> t, width |-> w, height |-> h, rng |-> NoRng,
                       calls |-> <<>>]
       \/ truchet = [inst |-> ScenarioInstance, width |-> ScenarioSide,
                     height |-> ScenarioSide, rng |-> NoRng, calls |-> <<>>]

TruchetNext == TruchetGenerate

SpecTruchet == TruchetInit /\ [][TruchetNext]_vars

\* Subdivision alone: a single generate call on instances whose baseSize is
\* not always a power-of-two multiple of minSize (the sizes stay whole) and
\* on misconfigured ones with minSize above baseSize.
SubdivideSizes ==
    {<<4, 2>>, <<4, 3>>, <<4, 4>>, <<4, 5>>, <<4, 8>>, <<4, 9>>, <<8, 2>>,
     <<12, 4>>, <<12, 5>>}

SubdivideInit ==
    /\ DriverUnstarted
    /\ HatIdle
    /\ RosetteIdle
    /\ IsectIdle
    /\ PageIdle
    /\ \E z \in SubdivideSizes, k \in SplitKs, w \in Viewports, h \in Viewports :
          truchet = [inst |-> [baseSize |-> z[1], minSize |-> z[2], splitK |-> k],
                     width |-> w, height |-> h, rng |-> NoRng, calls |-> <<>>]

SubdivideGenerate ==
    /\ Len(truchet.calls) < 1
    /\ TruchetGenerate

SubdivideNext == SubdivideGenerate

SpecSubdivide == SubdivideInit /\ [][SubdivideNext]_vars

----------------------------------------------------------------------------

(* HatTiling (patterns.js).  A tile centre (cx, cy) is kept as the whole    *)
(* numbers (4 cx / s, 4 cy / (s sqrt 3)), and so is every polygon vertex:  *)
(* colStep = 4.5 s is 18 units in x, rowStep = 3 s sqrt(3)/2 is 6 units in *)
(* y, and a rotation by a multiple of 60 degrees maps the lattice to       *)
(* itself.                                                                 *)

\* JavaScript a % b for b > 0: the result has the sign of a.
JsRem(a, b) == IF a >= 0 THEN a % b ELSE -((-a) % b)

_kiteVerts ==
    << <<0, 0>>, <<1, 0>>, <<2, 0>>, <<3, 0>>,
       <<3, 1>>, <<2, 1>>,
       <<3, 2>>, <<3, 3>>, <<2, 3>>,
       <<1, 2>>, <<0, 2>>, <<0, 1>>, <<0, 0>> >>

\* <<mirrorX, rotation steps of 60 degrees>>, indexed from 0.
_orientations ==
    << <<FALSE, 0>>, <<FALSE, 1>>, <<FALSE, 2>>, <<FALSE, 3>>,
       <<FALSE, 4>>, <<FALSE, 5>>, <<TRUE, 0>>, <<TRUE, 2>> >>

\* _kiteToPixel: px = u s + v s/2 (negated when flipX), py = v s sqrt(3)/2,
\* in units of s/2 and s sqrt(3)/2.
_kiteToPixel(u, v, flipX) ==
    LET px == 2 * u + v IN <<IF flipX THEN -px ELSE px, v>>

\* 2 cos(k 60 deg) and 2 sin(k 60 deg) / sqrt(3).
Cos2(k) == <<2, 1, -1, -2, -1, 1>>[k + 1]

Sin2(k) == <<0, 1, 1, 0, -1, -1>>[k + 1]

\* rotPt applied to the point (m s/2, n s sqrt(3)/2) with angle k 60 deg:
\* the result in units of s/4 and s sqrt(3)/4.
rotPt(m, n, k) ==
    <<m * Cos2(k) - 3 * n * Sin2(k), m * Sin2(k) + n * Cos2(k)>>

\* _tilePoly(cx, cy, orientIdx), centre and result in units of s/4, s sqrt(3)/4.
_tilePoly(cx, cy, orientIdx) ==
    LET o == _orientations[(orientIdx % 8) + 1] IN
    [i \in 1..Len(_kiteVerts) |->
        LET p == _kiteToPixel(_kiteVerts[i][1], _kiteVerts[i][2], o[1])
            r == rotPt(p[1], p[2], o[2])
        IN <<cx + r[1], cy + r[2]>>]

\* n & 0xff: the low 8 bits of the 32-bit two's complement form of n.
And255(n) == ToInt32(n)[2] % 256

\* Orientation index without the & 0xff mask.
hatOrientIdxUnmasked(col, row, orientSeed) ==
    JsRem(col * 3 + row * 5 + orientSeed, 8)

\* ((col * 3 + row * 5 + this.orientSeed) & 0xff) % 8
hatOrientIdx(col, row, orientSeed) ==
    JsRem(And255(col * 3 + row * 5 + orientSeed), 8)

\* row * rowStep < height + pad, with rowStep = 3 s sqrt(3)/2 and
\* pad = 2 max(colStep, rowStep) = 9 s (colStep = 4.5 s is the larger).
hatRowInRange(row, s, height) ==
    \/ row <= 0
    \/ 27 * row * row * s * s < 4 * (height + 9 * s) * (height + 9 * s)

\* col * colStep < width + pad, with colStep = 4.5 s.
hatColInRange(col, s, width) == 9 * col * s < 2 * width + 18 * s

\* The row loop starting at row 0 instead of -2.
RECURSIVE hatRowsFromZero(_, _, _)
hatRowsFromZero(row, s, height) ==
    IF hatRowInRange(IF row < 0 THEN 0 ELSE row, s, height)
    THEN <<IF row < 0 THEN 0 ELSE row>>
         \o hatRowsFromZero((IF row < 0 THEN 0 ELSE row) + 1, s, height)
    ELSE <<>>

\* The row indices the outer for loop visits, from row on.
RECURSIVE hatRows(_, _, _)
hatRows(row, s, height) ==
    IF hatRowInRange(row, s, height)
    THEN <<row>> \o hatRows(row + 1, s, height)
    ELSE <<>>

\* The column indices the inner for loop visits, from col on.
RECURSIVE hatCols(_, _, _)
hatCols(col, s, width) ==
    IF hatColInRange(col, s, width)
    THEN <<col>> \o hatCols(col + 1, s, width)
    ELSE <<>>

\* The tile pushed for the cell (col, row): cx = col colStep + (row % 2)
\* colStep / 2, cy = row rowStep.  col, row and orientIdx are kept with the
\* tile for reference.
hatTile(t, col, row) ==
    LET cx  == 18 * col + 9 * JsRem(row, 2)
        cy  == 6 * row
        idx == hatOrientIdx(col, row, t.orientSeed)
    IN [poly |-> _tilePoly(cx, cy, idx), cx |-> cx, cy |-> cy,
        col |-> col, row |-> row, orientIdx |-> idx]

\* 16 times the squared distance of a tile centre from (width/2, height/2),
\* as <<a, b>> standing for a + b sqrt(3).
hatDist(tile, s, width, height) ==
    LET X == tile.cx * s - 2 * width IN
    << X * X + 3 * tile.cy * tile.cy * s * s + 4 * height * height,
       -(4 * tile.cy * s * height) >>

\* a + b sqrt(3) < 0, for whole a and b.
NegSurd(a, b) ==
    IF a <= 0 /\ b <= 0 THEN a < 0 \/ b < 0
    ELSE IF a >= 0 /\ b >= 0 THEN FALSE
    ELSE LET ma == IF a < 0 THEN -a ELSE a
             mb == IF b < 0 THEN -b ELSE b
             q  == ma \div mb
             r  == ma % mb
             \* ma > mb sqrt(3)
             bigger == q >= 2 \/ (q = 1 /\ r * (2 * mb + r) > 2 * mb * mb)
         IN IF a < 0 THEN bigger ELSE ~bigger

hatLess(d1, d2) == NegSurd(d1[1] - d2[1], d1[2] - d2[2])

\* tiles.sort by distance from the viewport centre: a stable sort.
hatSort(tiles, s, width, height) ==
    LET n    == Len(tiles)
        keys == [i \in 1..n |-> hatDist(tiles[i], s, width, height)] \o <<>>
        rank == [i \in 1..n |->
                    1 + Cardinality({j \in 1..n :
                            \/ hatLess(keys[j], keys[i])
                            \/ (j < i /\ keys[j] = keys[i])})]
                \o <<>>
    IN [p \in 1..n |-> tiles[CHOOSE i \in 1..n : rank[i] = p]] \o <<>>

\* generateTiles(width, height) on instance t = [s, orientSeed].
generateTiles(t, width, height) ==
    LET rows == hatRows(-2, t.s, height)
        cols == hatCols(-2, t.s, width)
        nc   == Len(cols)
        tiles == [k \in 1..(Len(rows) * nc) |->
                    hatTile(t, cols[((k - 1) % nc) + 1], rows[((k - 1) \div nc) + 1])]
                 \o <<>>
    IN hatSort(tiles, t.s, width, height)

EdgeLens == {1, 2, 28}

OrientSeeds == {0, 1, 7, 65520}

HatViewports == 0..MaxViewport

HatGenerate ==
    /\ hat.inst # Null
    /\ Len(hat.calls) < MaxCalls
    /\ hat' = [hat EXCEPT !.calls = Append(@, generateTiles(hat.inst, hat.width,
                                                            hat.height))]
    /\ UNCHANGED <<driverVars, truchet, rosette, isect, pageVars>>

\* A new instance and the viewport it is used with, before any call.
HatInit ==
    /\ DriverUnstarted
    /\ TruchetIdle
    /\ RosetteIdle
    /\ IsectIdle
    /\ PageIdle
    /\ \E s \in EdgeLens, seed \in OrientSeeds, w \in HatViewports, h \in HatViewports :
         hat = [inst |-> [s |-> s, orientSeed |-> seed], width |-> w, height |-> h,
                calls |-> <<>>]

HatNext == HatGenerate

SpecHat == HatInit /\ [][HatNext]_vars

----------------------------------------------------------------------------
(* Math helpers (patterns.js).  A number is kept as <<a, b>>, standing for  *)
(* a + b sqrt(3) with whole a and b: the whole numbers are the <<a, 0>>,    *)
(* and the coordinates of the points of a rosette on the 30 degree rays     *)
(* are of this form.                                                        *)

SInt(n) == <<n, 0>>

SAdd(p, q) == <<p[1] + q[1], p[2] + q[2]>>

SSub(p, q) == <<p[1] - q[1], p[2] - q[2]>>

SMul(p, q) == <<p[1] * q[1] + 3 * p[2] * q[2], p[1] * q[2] + p[2] * q[1]>>

\* lineIntersect returning a point also when the lines are parallel.
lineIntersectNoGuard(ax1, ay1, ax2, ay2, bx1, by1, bx2, by2) ==
    LET bvx == SSub(ax2, ax1)
        bvy == SSub(ay2, ay1)
        dvx == SSub(bx2, bx1)
        dvy == SSub(by2, by1)
        denom == SSub(SMul(bvx, dvy), SMul(bvy, dvx))
        cx == SSub(bx1, ax1)
        cy == SSub(by1, ay1)
        tn == SSub(SMul(cx, dvy), SMul(cy, dvx))
    IN [xn |-> SAdd(SMul(ax1, denom), SMul(tn, bvx)),
        yn |-> SAdd(SMul(ay1, denom), SMul(tn, bvy)),
        d  |-> denom]

\* lineIntersect: Null, or the point (xn / d, yn / d), where t = tn / d.
\* Math.abs(denom) < 1e-10 is denom = 0 on these numbers: a whole denom that
\* is not 0 is at least 1 in size.
lineIntersect(ax1, ay1, ax2, ay2, bx1, by1, bx2, by2) ==
    LET bvx == SSub(ax2, ax1)
        bvy == SSub(ay2, ay1)
        dvx == SSub(bx2, bx1)
        dvy == SSub(by2, by1)
        denom == SSub(SMul(bvx, dvy), SMul(bvy, dvx))
        cx == SSub(bx1, ax1)
        cy == SSub(by1, ay1)
        tn == SSub(SMul(cx, dvy), SMul(cy, dvx))
    IN IF denom = <<0, 0>>
       THEN Null
       ELSE [xn |-> SAdd(SMul(ax1, denom), SMul(tn, bvx)),
             yn |-> SAdd(SMul(ay1, denom), SMul(tn, bvy)),
             d  |-> denom]

\* Segment end points are drawn from 0..MaxCoord on both axes.
Coords == 0..MaxCoord

\* lineIntersect(ax1, ay1, ax2, ay2, bx1, by1, bx2, by2) on the chosen
\* arguments.
IsectCall ==
    /\ ~isect.called
    /\ LET a == isect.args IN
       isect' = [isect EXCEPT
                    !.called = TRUE,
                    !.out = lineIntersect(SInt(a[1]), SInt(a[2]), SInt(a[3]), SInt(a[4]),
                                          SInt(a[5]), SInt(a[6]), SInt(a[7]), SInt(a[8]))]
    /\ UNCHANGED <<driverVars, truchet, hat, rosette, pageVars>>

\* The arguments of the call, before it.
IsectInit ==
    /\ DriverUnstarted
    /\ TruchetIdle
    /\ HatIdle
    /\ RosetteIdle
    /\ PageIdle
    /\ \E a \in [1..8 -> Coords] : isect = [args |-> a, called |-> FALSE, out |-> Null]

IsectNext == IsectCall

SpecIsect == IsectInit /\ [][IsectNext]_vars

----------------------------------------------------------------------------
(* Rosette (patterns.js).  A point of a motif is kept as the motif's centre *)
(* and its polar position about it: rho in 1/10000 of outerRadius, ang in   *)
(* 1/24 of a turn, so that the point is                                     *)
(*   (cx + rho cos(ang), cy + rho sin(ang)).                                *)
(* A centre is <<gx, gy>> with cx = gx spacing / 2 and cy = gy rowH.        *)
(* numPetals is one of 3, 4, 6, 12, for which every angle is a whole number *)
(* of 1/24 turns.  The far end of a diagonal extension and the tip of a     *)
(* petal are not kept.                                                      *)

RhoOuter == 10000

\* middleRadius = outerRadius * 0.50
RhoMiddle == 5000

\* innerRadius = outerRadius * 0.21
RhoInner == 2100

\* IR * 0.55
RhoDiamond == 1155

Pt(c, rho, ang) == [c |-> c, rho |-> rho, ang |-> IF rho = 0 THEN 0 ELSE ang % 24]

\* 2 cos and 2 sin of k/12 of a turn.
TwoCos12(k) ==
    << <<2, 0>>, <<0, 1>>, <<1, 0>>, <<0, 0>>, <<-1, 0>>, <<0, -1>>,
       <<-2, 0>>, <<0, -1>>, <<-1, 0>>, <<0, 0>>, <<1, 0>>, <<0, 1>> >>[(k % 12) + 1]

TwoSin12(k) == TwoCos12(k + 9)

\* The position of a point on a 30 degree ray about its centre, in 1/200 of
\* outerRadius: <<x, y>>.
Offset(p) ==
    <<SMul(SInt(p.rho \div 100), TwoCos12(p.ang \div 2)),
      SMul(SInt(p.rho \div 100), TwoSin12(p.ang \div 2))>>

\* lineIntersect on the lines through p1, p2 and through q1, q2.
intersectPts(p1, p2, q1, q2) ==
    lineIntersect(Offset(p1)[1], Offset(p1)[2], Offset(p2)[1], Offset(p2)[2],
                  Offset(q1)[1], Offset(q1)[2], Offset(q2)[1], Offset(q2)[2])

\* The points on a circle: index i + 1 holds the point at angle dRad * i.
circlePts(t, c, rho) ==
    [i \in 1..t.numPetals |-> Pt(c, rho, (24 \div t.numPetals) * (i - 1))] \o <<>>

outerLines(t, c) ==
    LET extPts == circlePts(t, c, RhoOuter) IN
    [i \in 1..t.numPetals |->
        [p1 |-> extPts[i],
         p2 |-> extPts[(((i - 1) + t.connectEveryN) % t.numPetals) + 1]]] \o <<>>

radialLines(t, c) ==
    LET extPts == circlePts(t, c, RhoOuter) IN
    [i \in 1..t.numPetals |-> [p1 |-> Pt(c, 0, 0), p2 |-> extPts[i]]] \o <<>>

diagLines(t, c) ==
    LET n         == t.numPetals
        middlePts == circlePts(t, c, RhoMiddle)
        innerPts  == circlePts(t, c, RhoInner)
    IN [i \in 1..n |-> [p1 |-> middlePts[i], p2 |-> innerPts[(i % n) + 1]]]
       \o [i \in 1..n |-> [p1 |-> middlePts[(i % n) + 1], p2 |-> innerPts[i]]]

\* The end of a diagonal that is farther from the centre (tx, ty) and the
\* nearer one (nx, ny): Math.hypot(dl.x1 - cx, dl.y1 - cy) is the rho of p1.
farEnd(dl) == IF dl.p1.rho > dl.p2.rho THEN dl.p1 ELSE dl.p2

nearEnd(dl) == IF dl.p1.rho > dl.p2.rho THEN dl.p2 ELSE dl.p1

\* bestPt is set for the diagonal dl: some outer line meets its line.
hasBestPt(dl, ols) ==
    \E k \in 1..Len(ols) :
        intersectPts(nearEnd(dl), farEnd(dl), ols[k].p1, ols[k].p2) # Null

\* The diagonal extensions, from diagonal d on: one per diagonal with a bestPt.
RECURSIVE diagExt(_, _, _)
diagExt(dls, ols, d) ==
    IF d > Len(dls) THEN <<>>
    ELSE (IF hasBestPt(dls[d], ols) THEN <<[p1 |-> farEnd(dls[d])]>> ELSE <<>>)
         \o diagExt(dls, ols, d + 1)

\* The petals, from sector i on (counted from 1): one per sector in which the
\* two diagonals meet.
RECURSIVE petals(_, _, _, _)
petals(t, c, dls, i) ==
    IF i > t.numPetals THEN <<>>
    ELSE LET n        == t.numPetals
             cwDiag   == dls[i]
             ccwDiag  == dls[n + i]
             innerVtx == intersectPts(cwDiag.p1, cwDiag.p2, ccwDiag.p1, ccwDiag.p2)
             middlePts == circlePts(t, c, RhoMiddle)
         IN (IF innerVtx = Null THEN <<>>
             ELSE <<[innerVtx |-> innerVtx, leftOuter |-> middlePts[i],
                     rightOuter |-> middlePts[(i % n) + 1]]>>)
            \o petals(t, c, dls, i + 1)

diamonds(t, c) ==
    LET dRad == 24 \div t.numPetals
        innerPts == circlePts(t, c, RhoInner)
    IN [i \in 1..t.numPetals |->
          << Pt(c, RhoDiamond, dRad * (i - 1) - (dRad \div 2)),
             innerPts[i],
             Pt(c, RhoDiamond, dRad * (i - 1) + (dRad \div 2)),
             Pt(c, 0, 0) >>] \o <<>>

\* The line commands of a phase: opacity in hundredths.
lineCmds(lines, kind, opacity) ==
    [i \in 1..Len(lines) |->
        [type |-> "line", line |-> lines[i], kind |-> kind, opacity |-> opacity]] \o <<>>

\* build(cx, cy) on instance t, for the centre c: the phases it returns.
build(t, c) ==
    LET ols == outerLines(t, c)
        dls == diagLines(t, c)
        pts == petals(t, c, dls, 1)
        dms == diamonds(t, c)
    IN << << [type |-> "circle", c |-> c, r |-> RhoOuter, opacity |-> 6],
             [type |-> "circle", c |-> c, r |-> RhoMiddle, opacity |-> 6],
             [type |-> "circle", c |-> c, r |-> RhoInner, opacity |-> 6] >>,
          lineCmds(radialLines(t, c), "radial", 12),
          lineCmds(ols, "outer", 55),
          lineCmds(dls, "diagonal", 35),
          lineCmds(diagExt(dls, ols, 1), "extension", 55),
          [i \in 1..Len(pts) |-> [type |-> "petal", points |-> pts[i], opacity |-> 15]]
             \o <<>>,
          [i \in 1..Len(dms) |-> [type |-> "diamond", points |-> dms[i], opacity |-> 22]]
             \o <<>> >>

maxPhases == 7

\* row * rowH < height + spacing, with spacing = 2.08 outerRadius and
\* rowH = spacing sqrt(3) / 2.
rosetteRowInRange(row, t, height) ==
    \/ row <= 0
    \/ 3 * (26 * row * t.outerRadius) * (26 * row * t.outerRadius)
          < (25 * height + 52 * t.outerRadius) * (25 * height + 52 * t.outerRadius)

\* col * spacing < width + spacing
rosetteColInRange(col, t, width) ==
    52 * col * t.outerRadius < 25 * width + 52 * t.outerRadius

\* The row indices the outer for loop of tile visits, from row on.
RECURSIVE rosetteRows(_, _, _)
rosetteRows(row, t, height) ==
    IF rosetteRowInRange(row, t, height)
    THEN <<row>> \o rosetteRows(row + 1, t, height)
    ELSE <<>>

\* The column indices the inner for loop of tile visits, from col on.
RECURSIVE rosetteCols(_, _, _)
rosetteCols(col, t, width) ==
    IF rosetteColInRange(col, t, width)
    THEN <<col>> \o rosetteCols(col + 1, t, width)
    ELSE <<>>

\* The motif centres without the shift of the odd rows.
motifCentreNoShift(col, row) == <<2 * col, row>>

\* The centre of the motif of the cell (col, row):
\* x = col spacing + (row % 2) spacing / 2, y = row rowH.
motifCentre(col, row) == <<2 * col + JsRem(row, 2), row>>

\* The centres in the order the loops of tile visit them.
placements(t, width, height) ==
    LET rows == rosetteRows(-1, t, height)
        cols == rosetteCols(-1, t, width)
        nc   == Len(cols)
    IN [k \in 1..(Len(rows) * nc) |->
          motifCentre(cols[((k - 1) % nc) + 1], rows[((k - 1) \div nc) + 1])] \o <<>>

\* The forEach of tile keeping the phases of the last motif only.
mergePhasesReplace(merged, phases) ==
    [pi \in 1..maxPhases |->
        IF pi <= Len(phases) THEN phases[pi] ELSE merged[pi]] \o <<>>

\* rose.phases.forEach((ph, pi) => { if (pi < maxPhases) merged[pi].push(...ph) })
mergePhases(merged, phases) ==
    [pi \in 1..maxPhases |->
        IF pi <= Len(phases) THEN merged[pi] \o phases[pi] ELSE merged[pi]] \o <<>>

\* The loops of tile from placement k on.
\* (The test on the merged phases makes TLC compute them before the next motif.)
RECURSIVE tileFrom(_, _, _, _)
tileFrom(t, places, merged, k) ==
    IF k > Len(places) THEN merged
    ELSE LET m == mergePhases(merged, build(t, places[k])) IN
         IF Len(m) >= 0 THEN tileFrom(t, places, m, k + 1) ELSE m

\* tile(width, height) on instance t: the merged phases.
tile(t, width, height) ==
    tileFrom(t, placements(t, width, height), [pi \in 1..maxPhases |-> <<>>], 1)

\* <<numPetals, connectEveryN>> of the instances followed.
RosetteShapes == {<<3, 1>>, <<3, 3>>, <<4, 1>>, <<6, 2>>, <<12, 5>>}

OuterRadii == {1, 2}

RosetteViewports == 0..MaxViewport

\* The centres build is called on directly.
BuildCentres == {<<0, 0>>, <<3, 1>>}

\* inst.tile(width, height) on the instance and viewport in use.
RosetteTile ==
    /\ rosette.inst # Null
    /\ Len(rosette.tiled) < 1
    /\ rosette' = [rosette EXCEPT
          !.tiled = Append(@, tile(rosette.inst, rosette.width, rosette.height))]
    /\ UNCHANGED <<driverVars, truchet, hat, isect, pageVars>>

\* inst.build(cx, cy) on the instance in use.
RosetteBuild ==
    /\ rosette.inst # Null
    /\ Len(rosette.built) < 1
    /\ \E c \in BuildCentres :
         rosette' = [rosette EXCEPT
            !.built = Append(@, [c |-> c, phases |-> build(rosette.inst, c)])]
    /\ UNCHANGED <<driverVars, truchet, hat, isect, pageVars>>

\* A new instance and the viewport it is used with, before any call.
RosetteInit ==
    /\ DriverUnstarted
    /\ TruchetIdle
    /\ HatIdle
    /\ IsectIdle
    /\ PageIdle
    /\ \E z \in RosetteShapes, r \in OuterRadii,
          w \in RosetteViewports, h \in RosetteViewports :
         rosette = [inst |-> [numPetals |-> z[1], connectEveryN |-> z[2],
                              outerRadius |-> r],
                    width |-> w, height |-> h, tiled |-> <<>>, built |-> <<>>]

RosetteNext == RosetteTile \/ RosetteBuild

SpecRosette == RosetteInit /\ [][RosetteNext]_vars

\* The two generators that place their units on a grid of shifted rows: a
\* HatTiling instance with its generateTiles calls, or a Rosette instance
\* with its tile and build calls.
GridsInit == HatInit \/ RosetteInit

GridsNext == HatGenerate \/ RosetteTile \/ RosetteBuild

SpecGrids == GridsInit /\ [][GridsNext]_vars

----------------------------------------------------------------------------
(* The xorshift generators: makeRng (render-pattern.js) and the rand of     *)
(* Truchet.generate (patterns.js).  Both step the state the same way; the  *)
(* output of a draw is (x >>> 0) / 0xFFFFFFFF for the state x after it.    *)

MaxSeed == 16          \* the seeds 0..MaxSeed are followed, and some chosen ones
MaxDraws == 8          \* draws followed on one generator

\* let x = seed | 0 || 1
makeRngSeed(seed) == IF ToInt32(seed) = <<0, 0>> THEN <<0, 1>> ELSE ToInt32(seed)

\* Math.floor(((x >>> 0) / 0xFFFFFFFF) * m) for a whole m in 1..65535.
\* With u = x >>> 0 = 65536 x[1] + x[2] and m u = q 2^32 + r (0 <= r < 2^32),
\* m u = q (2^32 - 1) + (q + r) and q + r < 2 (2^32 - 1): the quotient by
\* 2^32 - 1 is q, or q + 1 when q + r >= 2^32 - 1.  (The rounding of the
\* division and of the product is far smaller than the distance of
\* m u / (2^32 - 1) from the next whole number.)
randFloor(x, m) ==
    LET A  == m * x[1]
        B  == m * x[2]
        s  == (A % Half16) + (B \div Half16)
        q  == (A \div Half16) + (s \div Half16)
        rh == s % Half16
        rl == B % Half16
    IN q + (IF rh = Half16 - 1 /\ rl + q >= Half16 - 1 THEN 1 ELSE 0)

\* tilesPerTick drawn from a range one too wide.
tilesPerTickOfNine(x) == 2 + randFloor(x, 9)

\* const tilesPerTick = 2 + Math.floor(rand() * 8), x the state after the draw
tilesPerTickOf(x) == 2 + randFloor(x, 8)

\* const holdLimit = 480 + Math.floor(rand() * 1440)
holdLimitOf(x) == 480 + randFloor(x, 1440)

\* The states after each of the next n draws from state x.
RECURSIVE drawStates(_, _)
drawStates(x, n) ==
    IF n = 0 THEN <<>> ELSE <<xorshift(x)>> \o drawStates(xorshift(x), n - 1)

\* The seeds followed: the small ones, the largest seeds buildScene can pass
\* (Math.floor(Math.random() * 1e9) and Math.floor(rand() * 999983)), the
\* ends of the 32-bit range, and 0xFC001FFF as a signed number.
RngSeeds == (0..MaxSeed) \cup {42, 999982, 999999999, 2147483647, -1, -2147483647,
                               -67100673}

\* The head of buildScene: the draws for the scene type, breatheSpeed,
\* breatheAmp, tilesPerTick and holdLimit, in this order.
BuildSceneDraws ==
    /\ mkrng.kind = "makeRng"
    /\ mkrng.outs = <<>>
    /\ LET d == drawStates(mkrng.x, 5) IN
       mkrng' = [mkrng EXCEPT
                    !.x = d[5],
                    !.outs = d,
                    !.drawn = [typeIdx      |-> randFloor(d[1], 4),
                               tilesPerTick |-> tilesPerTickOf(d[4]),
                               holdLimit    |-> holdLimitOf(d[5])]]
    /\ UNCHANGED <<driverVars, libVars, intro, anim>>

\* One more call of rand(): a later draw of buildScene, or a draw of generate.
RandDraw ==
    /\ mkrng.kind # "none"
    /\ mkrng.kind = "makeRng" => mkrng.outs # <<>>
    /\ Len(mkrng.outs) < MaxDraws
    /\ mkrng' = [mkrng EXCEPT !.x = xorshift(mkrng.x),
                              !.outs = Append(@, xorshift(mkrng.x))]
    /\ UNCHANGED <<driverVars, libVars, intro, anim>>

\* A generator right after makeRng(seed), or the rng of a generate call
\* right after let rng = seed | 0.
RngInit ==
    /\ DriverUnstarted
    /\ TruchetIdle /\ HatIdle /\ RosetteIdle /\ IsectIdle
    /\ IntroIdle /\ AnimIdle
    /\ \E seed \in RngSeeds :
          \/ mkrng = [kind |-> "makeRng", seed |-> seed, x |-> makeRngSeed(seed),
                      outs |-> <<>>, drawn |-> Null]
          \/ mkrng = [kind |-> "generate", seed |-> seed, x |-> seedRng(seed, NoRng),
                      outs |-> <<>>, drawn |-> Null]

RngNext == BuildSceneDraws \/ RandDraw

SpecRng == RngInit /\ [][RngNext]_vars

----------------------------------------------------------------------------
(* The intro sequence (intro.js).  Times are in tenths of a second.  The    *)
(* program keeps phaseT0, the time the current phase began; the model keeps *)
(* phaseAge, the current time minus phaseT0, counted up to AgeCap only:    *)
(* every comparison of the program is against an age of at most 4.5 s.     *)
(* globalT0 is Null or set (its value only positions the skip hint).       *)
(* last names the handler that ran last and pt is the phase age the last   *)
(* tick read: both are kept for reference only.                            *)

PH_MATERIALIZE == 0

PH_HOLD == 1

PH_ZOOM == 2

PH_COMPASS == 3

PH_FADEOUT == 4

\* The ages (in tenths of a second) tick compares pt with, by phase:
\* pt > 2.6, pt > 2.0, pt > 2.6, pt > 4.5.
PhaseLimits == <<26, 20, 26, 45>>

\* bgAlpha = Math.max(0, 1 - pt2 / 0.8) is 0 from pt2 = 0.8 s on.
FadeLen == 8

AgeCap == 46           \* phaseAge is counted up to AgeCap
MaxGap == 2            \* frames arrive 1..MaxGap tenths of a second apart,
LongGap == 50          \* or after a stall of LongGap tenths

TickGaps == (1..MaxGap) \cup {LongGap}

\* The time an event handler runs after the last handler: at once, or later.
EventGaps == {0, 1}

IntroSizes == 1..MaxViewport

\* globalT0 once the first tick has set it.
GlobalSet == [set |-> TRUE]

\* The four phase tests of tick, all made with the pt read before them.
phaseAfterTests(phase, pt) ==
    LET p1 == IF phase = PH_MATERIALIZE /\ pt > PhaseLimits[1] THEN phase + 1 ELSE phase
        p2 == IF p1 = PH_HOLD /\ pt > PhaseLimits[2] THEN p1 + 1 ELSE p1
        p3 == IF p2 = PH_ZOOM /\ pt > PhaseLimits[3] THEN p2 + 1 ELSE p2
    IN IF p3 = PH_COMPASS /\ pt > PhaseLimits[4] THEN p3 + 1 ELSE p3

\* skip setting the phase and the phase clock in every phase.
skipAlways(i) == [i EXCEPT !.phase = PH_FADEOUT, !.phaseAge = 0]

\* function skip(): if (phase < PH_FADEOUT) { phase = PH_FADEOUT; phaseT0 = now }
skip(i) ==
    IF i.phase < PH_FADEOUT
    THEN [i EXCEPT !.phase = PH_FADEOUT, !.phaseAge = 0]
    ELSE i

\* finish leaving the frame callback it is called from scheduled again.
finishAndReschedule(i) ==
    [i EXCEPT !.pending = (i.pending \ {i.raf}) \cup {FreshHandle(i.pending \ {i.raf})},
              !.hidden = TRUE,
              !.seen = TRUE,
              !.finished = Min(i.finished + 1, 2)]

\* function finish(): cancelAnimationFrame(raf), hide the canvas, record
\* 'intro-seen'.  finished counts the calls, up to 2.
finish(i) ==
    [i EXCEPT !.pending = i.pending \ {i.raf},
              !.hidden = TRUE,
              !.seen = TRUE,
              !.finished = Min(i.finished + 1, 2)]

\* tick(ts) run by the host for the pending handle h, dt after the last
\* handler: i is the state before, the result the state after.
tick(i, h, dt) ==
    LET first == i.globalT0 = Null
        pt    == IF first THEN 0 ELSE Min(i.phaseAge + dt, AgeCap)
        ph    == phaseAfterTests(i.phase, pt)
        pt2   == IF ph # i.phase THEN 0 ELSE pt
        run   == [i EXCEPT !.globalT0 = GlobalSet, !.phase = ph, !.phaseAge = pt2,
                           !.pending = i.pending \ {h}, !.last = "tick", !.pt = pt]
    IN IF ph = PH_FADEOUT /\ pt2 >= FadeLen
       THEN finish(run)
       ELSE [run EXCEPT !.raf = FreshHandle(run.pending),
                        !.pending = run.pending \cup {FreshHandle(run.pending)}]

\* The host runs a scheduled tick.
IntroTick ==
    /\ intro.running
    /\ \E h \in intro.pending, dt \in TickGaps : intro' = tick(intro, h, dt)
    /\ UNCHANGED <<driverVars, libVars, mkrng, anim>>

\* A click on the canvas: skip.  A hidden canvas gets no click.
IntroClick ==
    /\ intro.running
    /\ ~intro.hidden
    /\ \E dt \in EventGaps :
          intro' = [skip([intro EXCEPT !.phaseAge = Min(@ + dt, AgeCap)])
                      EXCEPT !.last = "click"]
    /\ UNCHANGED <<driverVars, libVars, mkrng, anim>>

\* A keydown with e.key = 'Escape': skip.
IntroEscape ==
    /\ intro.running
    /\ \E dt \in EventGaps :
          intro' = [skip([intro EXCEPT !.phaseAge = Min(@ + dt, AgeCap)])
                      EXCEPT !.last = "escape"]
    /\ UNCHANGED <<driverVars, libVars, mkrng, anim>>

\* A window resize: resize() sets W and H and rebuilds poly and dots.
IntroResize ==
    /\ intro.running
    /\ \E z \in IntroSizes : intro' = [intro EXCEPT !.size = z, !.last = "resize"]
    /\ UNCHANGED <<driverVars, libVars, mkrng, anim>>

\* The state after the script has run: after init(), or, when 'intro-seen'
\* is already recorded, with nothing set up.
IntroInit ==
    /\ DriverUnstarted
    /\ TruchetIdle /\ HatIdle /\ RosetteIdle /\ IsectIdle
    /\ RngIdle /\ AnimIdle
    /\ \/ \E z \in IntroSizes :
            intro = [running |-> TRUE, phase |-> PH_MATERIALIZE, phaseAge |-> 0,
                     globalT0 |-> Null, raf |-> 0, pending |-> {0}, finished |-> 0,
                     hidden |-> FALSE, seen |-> FALSE, size |-> z, last |-> "init",
                     pt |-> 0]
       \/ intro = [running |-> FALSE, phase |-> PH_MATERIALIZE, phaseAge |-> 0,
                   globalT0 |-> Null, raf |-> Null, pending |-> {}, finished |-> 0,
                   hidden |-> FALSE, seen |-> TRUE, size |-> 0, last |-> "none",
                   pt |-> 0]

IntroNext == IntroTick \/ IntroClick \/ IntroEscape \/ IntroResize

SpecIntro == IntroInit /\ [][IntroNext]_vars

\* The host runs a requested frame callback eventually.
SpecIntroLive == IntroInit /\ [][IntroNext]_vars /\ WF_vars(IntroTick)

----------------------------------------------------------------------------
(* ClusterAnimation (cluster-animation.js) and CivicCompass (compass.js):   *)
(* the visibility observer, the frame loop and the slide timer, which are   *)
(* written alike.  raf is 0 for null; a handle of requestAnimationFrame is  *)
(* a positive number.  frames counts the runs of _update and _render, up to *)
(* MaxAnimFrames; flips counts the visibility changes reported since the    *)
(* instance last requested a frame (up to 2) and last names the handler     *)
(* that ran last: both are kept for reference only.                         *)

MaxAnimFrames == 1     \* frames is counted up to MaxAnimFrames

AnimKinds == {"cluster", "compass"}

\* this.slides.length of ClusterAnimation, this.profiles.length of CivicCompass.
SlideCount(k) == IF k = "cluster" THEN 5 ELSE 4

\* The frame callbacks pending for instance k.
PendingOf(a, k) == {e \in a.queue : e.owner = k}

\* The handle requestAnimationFrame returns: positive, and not pending.
FreshAnimHandle(queue) ==
    CHOOSE h \in 1..(Cardinality(queue) + 1) : \A e \in queue : e.h # h

\* this.raf = requestAnimationFrame(frame) on instance k.
requestFrame(a, k) ==
    LET h == FreshAnimHandle(a.queue) IN
    [a EXCEPT !.inst[k].raf = h, !.inst[k].flips = 0,
              !.queue = a.queue \cup {[h |-> h, owner |-> k]}]

\* The observer callback starting the loop whenever the element is visible.
observeNoGuard(a, k, b) ==
    LET v == [a EXCEPT !.inst[k].visible = b,
                       !.inst[k].flips = IF b # a.inst[k].visible
                                         THEN Min(@ + 1, 2) ELSE @,
                       !.last = [op |-> "observe", k |-> k]]
    IN IF b THEN requestFrame(v, k) ELSE v

\* The IntersectionObserver callback of instance k, isIntersecting = b:
\* self.visible = b; if (self.visible && !self.raf) self._loop();
observe(a, k, b) ==
    LET v == [a EXCEPT !.inst[k].visible = b,
                       !.inst[k].flips = IF b # a.inst[k].visible
                                         THEN Min(@ + 1, 2) ELSE @,
                       !.last = [op |-> "observe", k |-> k]]
    IN IF b /\ a.inst[k].raf = 0 THEN requestFrame(v, k) ELSE v

\* function frame() run by the host for the pending entry e.
frameRun(a, e) ==
    LET k == e.owner
        r == [a EXCEPT !.queue = a.queue \ {e}, !.last = [op |-> "frame", k |-> k]]
    IN IF ~a.inst[k].visible
       THEN [r EXCEPT !.inst[k].raf = 0]
       ELSE requestFrame([r EXCEPT !.inst[k].frames = Min(@ + 1, MaxAnimFrames)], k)

\* _goTo(i): nothing when i is the current slide.
goTo(a, k, i) ==
    IF i = a.inst[k].cur THEN a ELSE [a EXCEPT !.inst[k].cur = i]

AnimObserve ==
    /\ anim.inst # <<>>
    /\ \E k \in AnimKinds, b \in BOOLEAN : anim' = observe(anim, k, b)
    /\ UNCHANGED <<driverVars, libVars, mkrng, intro>>

AnimFrame ==
    /\ \E e \in anim.queue : anim' = frameRun(anim, e)
    /\ UNCHANGED <<driverVars, libVars, mkrng, intro>>

\* The setInterval callback: if (self.visible) self._next();
AnimTimer ==
    /\ anim.inst # <<>>
    /\ \E k \in AnimKinds :
          anim' = [(IF anim.inst[k].visible
                    THEN goTo(anim, k, (anim.inst[k].cur + 1) % SlideCount(k))
                    ELSE anim)
                   EXCEPT !.last = [op |-> "timer", k |-> k]]
    /\ UNCHANGED <<driverVars, libVars, mkrng, intro>>

\* A click on navigation dot i: _goTo(i).
AnimDot ==
    /\ anim.inst # <<>>
    /\ \E k \in AnimKinds : \E i \in 0..(SlideCount(k) - 1) :
          anim' = [goTo(anim, k, i) EXCEPT !.last = [op |-> "dot", k |-> k]]
    /\ UNCHANGED <<driverVars, libVars, mkrng, intro>>

\* Both instances right after their constructors.
AnimInit ==
    /\ DriverUnstarted
    /\ TruchetIdle /\ HatIdle /\ RosetteIdle /\ IsectIdle
    /\ RngIdle /\ IntroIdle
    /\ anim = [inst  |-> [k \in AnimKinds |->
                            [visible |-> FALSE, raf |-> 0, cur |-> 0, frames |-> 0,
                             flips |-> 0]],
               queue |-> {},
               last  |-> [op |-> "none", k |-> "none"]]

AnimNext == AnimObserve \/ AnimFrame \/ AnimTimer \/ AnimDot

SpecAnim == AnimInit /\ [][AnimNext]_vars

----------------------------------------------------------------------------

Init == DriverInit /\ TruchetIdle /\ HatIdle /\ RosetteIdle /\ IsectIdle /\ PageIdle

Next == Loop \/ Click \/ ResizeEvent \/ ResizeFire

Spec == Init /\ [][Next]_vars

\* The driver with frame callbacks only: no click and no resize arrives.
FramesNext == Loop

SpecFrames == Init /\ [][FramesNext]_vars

\* Long runs of the driver, over whole fade-ins and fade-outs.  The frame
\* counter is followed up to SatFrames and kept there (only the value of the
\* later born stamps is lost), and buildScene draws from two inputs: a short
\* scene and one whose hold outlasts the fade-in.
LongInputs == {<<1, 2, 1>>, <<2, 2, LongHold>>}

LoopLong == LoopWith(LongInputs, Min(frame + 1, SatFrames))

ClickLong == ClickWith(LongInputs)

ResizeFireLong == ResizeFireWith(LongInputs)

InitLong ==
    /\ DriverInitWith(LongInputs)
    /\ TruchetIdle /\ HatIdle /\ RosetteIdle /\ IsectIdle /\ PageIdle

LongNext == LoopLong \/ ClickLong \/ ResizeEvent \/ ResizeFireLong

SpecLong == InitLong /\ [][LongNext]_vars

\* The driver from a (re)start on when no resize arrives any more, under fair
\* scheduling of the frame callback: the host runs a requested animation
\* frame callback eventually; clicks arrive or not.  (The state a resize
\* rebuild leaves is a start state: a fresh scene, nothing staged, frame 0,
\* one callback pending.)  buildScene draws from all of BuildInputs; the
\* frame counter is kept at SatFrames as in the long runs.
LoopLive == LoopWith(BuildInputs, Min(frame + 1, SatFrames))

LiveNext == LoopLive \/ Click

SpecLive == Init /\ [][LiveNext]_vars /\ WF_vars(LoopLive)

\* The draw section of loop.  loop draws after its spawn and hold sections,
\* so for the scene s and the frame number f that a run of loop leaves, the
\* calls of drawUnit it made are drawCalls(s, f).  fadeIn is kept in
\* thirtieths (1/FADE_FRAMES).
FADE_FRAMES == 30

MaxAge == 32           \* the loop is followed for MaxAge frames in the fade-in runs

\* The draw section drawing the units that are not spawned yet as well.
drawCallsAll(s, f) ==
    [i \in 1..Len(s.tiles) |->
        LET age == f - s.tiles[i] IN
        [unit |-> i, age |-> age,
         fadeIn |-> IF age < FADE_FRAMES THEN age ELSE FADE_FRAMES]] \o <<>>

\* for (const tile of scene.tiles) { if (tile.born < 0) continue; ... }
drawCalls(s, f) ==
    LET born == SelectSeq([i \in 1..Len(s.tiles) |-> i] \o <<>>,
                          LAMBDA i : ~(s.tiles[i] < 0))
    IN [k \in 1..Len(born) |->
          LET age == f - s.tiles[born[k]] IN
          [unit |-> born[k], age |-> age,
           fadeIn |-> IF age < FADE_FRAMES THEN age ELSE FADE_FRAMES]] \o <<>>

\* buildScene draws from two inputs: a scene that takes two frames to spawn
\* and then holds, and a short one.
FadeInputs == {<<3, 2, LongHold>>, <<1, 2, 1>>}

LoopFade ==
    /\ frame < MaxAge
    /\ LoopWith(FadeInputs, frame + 1)

ClickFade == ClickWith(FadeInputs)

ResizeFireFade == ResizeFireWith(FadeInputs)

InitFade ==
    /\ DriverInitWith(FadeInputs)
    /\ TruchetIdle /\ HatIdle /\ RosetteIdle /\ IsectIdle /\ PageIdle

FadeNext == LoopFade \/ ClickFade \/ ResizeEvent \/ ResizeFireFade

\* The driver followed over more frames than a unit's fade-in takes.
SpecFade == InitFade /\ [][FadeNext]_vars

----------------------------------------------------------------------------
(* Properties of the pattern animation driver *)

IsFresh(s) ==
    /\ s.spawnIdx = 0
    /\ ~s.done
    /\ s.alpha = 0
    /\ s.holdAge = 0
    /\ ~s.fadingOut
    /\ \A i \in 1..Len(s.tiles) : s.tiles[i] = -1

\* A step of the debounce timer firing (the only step that disarms the timer).
IsResizeFire == resizeTimer /\ ~resizeTimer'

\* A step of loop().
IsLoopStep == frame' = frame + 1

\* A step that leaves the same scene object active.
SameScene == scene # Null /\ scene' # Null /\ scene'.id = scene.id

LiveIds == (IF scene # Null THEN {scene.id} ELSE {})
           \cup (IF nextScene # Null THEN {nextScene.id} ELSE {})

\* C1: at the end of every frame of the active scene, spawnIdx = unit count
\* implies done = TRUE (the scene is marked complete in the frame in which
\* the spawn cursor reaches the unit count).
C1_DoneWhenCursorAtEnd ==
    scene # Null => (scene.spawnIdx = Len(scene.tiles) => scene.done)

\* C2: within one scene spawnIdx never decreases and never exceeds the unit
\* count, done never goes from TRUE back to FALSE, and done = TRUE implies
\* spawnIdx = unit count.
C2_SpawnMonotone ==
    /\ [](scene # Null =>
            /\ scene.spawnIdx \in 0..Len(scene.tiles)
            /\ (scene.done => scene.spawnIdx = Len(scene.tiles)))
    /\ [][SameScene =>
            /\ scene'.spawnIdx >= scene.spawnIdx
            /\ (scene.done => scene'.done)]_vars

C2_Witness ==
    /\ scene # Null
    /\ scene.done
    /\ scene.holdAge > 0
    /\ scene.spawnIdx = Len(scene.tiles)

\* C3: every scene is fresh at the moment it becomes the active scene
\* (initial build, resize rebuild, swap-in of the staged scene): spawnIdx = 0,
\* done = FALSE, alpha = 0, holdAge = 0, fadingOut = FALSE, born = -1 on every
\* unit; a staged scene is never spawned, aged or faded while it waits.
C3_FreshOnActivation ==
    /\ IsFresh(scene)
    /\ [](nextScene # Null => IsFresh(nextScene))
    /\ [](scene # Null /\ scene.fadingOut /\ scene.alpha - SCENE_FADE <= 0 =>
            LET cf == crossFade(scene, nextScene) IN
            /\ cf[1] # Null
            /\ cf[1].id = nextScene.id
            /\ IsFresh(cf[1]))
    /\ [][IsResizeFire => scene'.id # scene.id /\ IsFresh(scene')]_vars

C3_Witness ==
    /\ scene # Null
    /\ scene.fadingOut
    /\ scene.alpha > 0
    /\ scene.alpha - SCENE_FADE <= 0
    /\ nextScene # Null
    /\ frame > 0

\* C4: at most one scene is fading out and at most one scene is staged; a
\* scene-build request (click or hold timer) arriving while the active scene
\* is fading out or a scene is staged builds no scene, does not replace the
\* staged scene and (for a click) changes no field of the active scene.
C4_ThirdRequestNoOp ==
    /\ [](nextScene # Null =>
            /\ scene # Null
            /\ scene.fadingOut
            /\ ~nextScene.fadingOut
            /\ nextScene.id # scene.id)
    /\ [][(scene # Null /\ (scene.fadingOut \/ nextScene # Null) /\ ~IsResizeFire) =>
            /\ LiveIds' \subseteq LiveIds
            /\ nextScene' \in {nextScene, Null}
            /\ (~IsLoopStep => UNCHANGED <<scene, nextScene>>)]_vars

C4_Witness ==
    /\ scene # Null
    /\ scene.fadingOut
    /\ nextScene # Null
    /\ scene.done
    /\ scene.holdAge > scene.holdLimit + 1

\* C5 (as stated): a scene moves through spawning, holding, fading-out,
\* replaced only in that order: it is marked fading-out only after it is
\* complete, fadingOut never returns to FALSE on the same scene, and it is
\* replaced only after it has faded out to alpha 0.
C5_Original ==
    /\ [](scene # Null /\ scene.fadingOut => scene.done)
    /\ [][~IsResizeFire =>
            /\ (SameScene /\ scene.fadingOut => scene'.fadingOut)
            /\ (~SameScene => scene.fadingOut /\ scene.alpha - SCENE_FADE <= 0)]_vars

\* C5 (amended): the hold timer marks a scene fading-out only after it is
\* complete, but a click marks it fading-out in any state in which it is not
\* yet fading out, also while it is still spawning; fadingOut never returns
\* to FALSE on the same scene, holdAge is positive only on a complete scene,
\* and the scene is replaced (by the staged scene) only after it has faded
\* out to alpha 0.
C5_LifeCycle ==
    /\ [](scene # Null /\ scene.holdAge > 0 => scene.done)
    /\ [][~IsResizeFire =>
            /\ (SameScene /\ scene.fadingOut => scene'.fadingOut)
            /\ (SameScene /\ IsLoopStep /\ ~scene.fadingOut /\ scene'.fadingOut
                   => scene'.done /\ scene'.holdAge > scene'.holdLimit)
            /\ (~SameScene =>
                   /\ scene.fadingOut
                   /\ scene.alpha - SCENE_FADE <= 0
                   /\ nextScene # Null
                   /\ scene'.id = nextScene.id)]_vars

C5_Witness ==
    /\ scene # Null
    /\ scene.fadingOut
    /\ ~scene.done
    /\ scene.spawnIdx > 0
    /\ nextScene # Null

----------------------------------------------------------------------------
(* Properties of Truchet.generate *)

\* The terminal cells a returned command list stands for: each arc carries
\* the midpoint and the radius (half the size) of its cell.
CellsOf(cmds) ==
    {[x |-> cmds[i].midX - cmds[i].r, y |-> cmds[i].midY - cmds[i].r,
      size |-> 2 * cmds[i].r] : i \in 1..Len(cmds)}

IsScenario ==
    /\ truchet.inst = ScenarioInstance
    /\ truchet.width = ScenarioSide
    /\ truchet.height = ScenarioSide

\* C6 (as stated): Truchet(60, 60, 1) with generate(60, 60, 1) processes
\* exactly one terminal cell and returns exactly 2 arc commands.
C6_Original ==
    IsScenario =>
        \A i \in 1..Len(truchet.calls) :
            truchet.calls[i].seed = 1 =>
                /\ Len(truchet.calls[i].cmds) = 2
                /\ Cardinality(CellsOf(truchet.calls[i].cmds)) = 1

\* C6 (amended): Truchet(60, 60, 1) with generate(60, 60, 1) splits no cell:
\* it processes the 9 terminal cells of size 60 of the 3 x 3 grid from -60 to
\* 120 (the covering cell and its overscan ring) and returns exactly 18 arc
\* commands of radius 30, two per cell.
C6_ScenarioNineCells ==
    IsScenario =>
        \A i \in 1..Len(truchet.calls) :
            truchet.calls[i].seed = 1 =>
                /\ Len(truchet.calls[i].cmds) = 18
                /\ CellsOf(truchet.calls[i].cmds) =
                     {[x |-> cx, y |-> cy, size |-> 60] :
                         cx \in {-60, 0, 60}, cy \in {-60, 0, 60}}
                /\ \A j \in 1..18 : truchet.calls[i].cmds[j].r = 30

C6_Witness ==
    /\ IsScenario
    /\ \E i \in 1..Len(truchet.calls) : truchet.calls[i].seed = 1

\* C7: two generate calls with the same (baseSize, minSize, splitProb, seed,
\* width, height) return identical command lists in identical order, whatever
\* calls were made before: nothing carries over from an earlier call.
C7_Deterministic ==
    \A i, j \in 1..Len(truchet.calls) :
        truchet.calls[i].seed = truchet.calls[j].seed =>
            truchet.calls[i].cmds = truchet.calls[j].cmds

C7_Witness ==
    /\ Len(truchet.calls) >= 2
    /\ truchet.calls[1].seed = truchet.calls[2].seed
    /\ truchet.inst.baseSize > truchet.inst.minSize
    /\ truchet.inst.splitK = 2
    /\ truchet.calls[1].seed # 0

\* C8: the terminal cells are squares that cover the viewport plus one
\* baseSize cell of overscan on every side without gap or overlap: the grid
\* of top-level cells reaches from -baseSize to at least width + baseSize and
\* height + baseSize, every unit square of the grid lies in exactly one
\* terminal cell, no terminal cell reaches outside the grid (so the children
\* of a split cell partition it), and every arc is centred on a corner of
\* its cell.

\* Number of top-level cells along an axis of the given extent.
GridCount(extent, base) == (extent + 2 * base + base - 1) \div base

CoversViewport(cmds, t, width, height) ==
    LET cells == CellsOf(cmds)
        right == -t.baseSize + GridCount(width, t.baseSize) * t.baseSize
        below == -t.baseSize + GridCount(height, t.baseSize) * t.baseSize
    IN
    /\ Len(cmds) = 2 * Cardinality(cells)
    /\ right >= width + t.baseSize
    /\ below >= height + t.baseSize
    /\ \A px \in (-t.baseSize)..(right - 1), py \in (-t.baseSize)..(below - 1) :
          Cardinality({c \in cells : /\ c.x <= px /\ px + 1 <= c.x + c.size
                                     /\ c.y <= py /\ py + 1 <= c.y + c.size}) = 1
    /\ \A c \in cells :
          /\ c.size > 0
          /\ c.x >= -t.baseSize /\ c.x + c.size <= right
          /\ c.y >= -t.baseSize /\ c.y + c.size <= below
    /\ \A i \in 1..Len(cmds) :
          /\ cmds[i].cx \in {cmds[i].midX - cmds[i].r, cmds[i].midX + cmds[i].r}
          /\ cmds[i].cy \in {cmds[i].midY - cmds[i].r, cmds[i].midY + cmds[i].r}

C8_Coverage ==
    \A i \in 1..Len(truchet.calls) :
        CoversViewport(truchet.calls[i].cmds, truchet.inst, truchet.width, truchet.height)

C8_Witness ==
    /\ Len(truchet.calls) >= 1
    /\ truchet.inst.baseSize = 8
    /\ \E c \in CellsOf(truchet.calls[1].cmds) : c.size = 2
    /\ \E c \in CellsOf(truchet.calls[1].cmds) : c.size = 4
    /\ \E c \in CellsOf(truchet.calls[1].cmds) : c.size = 8

----------------------------------------------------------------------------
(* Properties of HatTiling.generateTiles *)

HatIndexSet(tiles, f) == {tiles[i][f] : i \in 1..Len(tiles)}

\* C9: the orientation index of the cell at (col, row) is
\* ((3 col + 5 row + orientSeed) mod 256) mod 8, also for the negative
\* overscan indices; it lies in 0..7, the polygon is the one of that
\* orientation, and two calls return the same tiles in the same order.
C9_Orientation ==
    /\ \A c \in 1..Len(hat.calls) : \A i \in 1..Len(hat.calls[c]) :
          LET tl == hat.calls[c][i]
              want == ((3 * tl.col + 5 * tl.row + hat.inst.orientSeed) % 256) % 8
          IN /\ tl.orientIdx \in 0..7
             /\ tl.orientIdx = want
             /\ tl.poly = _tilePoly(tl.cx, tl.cy, want)
    /\ \A c, d \in 1..Len(hat.calls) : hat.calls[c] = hat.calls[d]

C9_Witness ==
    /\ Len(hat.calls) >= 2
    /\ \E i \in 1..Len(hat.calls[1]) :
          LET tl == hat.calls[1][i] IN
          /\ 3 * tl.col + 5 * tl.row + hat.inst.orientSeed < 0
          /\ tl.orientIdx # 0

\* C10: for every width >= 0, height >= 0 and edgeLen > 0 generateTiles
\* returns a non-empty list whose row and column indices both start at -2
\* (HatTiling(28, 0).generateTiles(0, 0) included), and the number of tiles is
\* (number of generated rows) x (number of generated columns).
C10_OverscanNonEmpty ==
    \A c \in 1..Len(hat.calls) :
        LET tiles == hat.calls[c]
            rows  == HatIndexSet(tiles, "row")
            cols  == HatIndexSet(tiles, "col")
        IN /\ Len(tiles) > 0
           /\ -2 \in rows /\ \A r \in rows : r >= -2
           /\ -2 \in cols /\ \A k \in cols : k >= -2
           /\ Len(tiles) = Cardinality(rows) * Cardinality(cols)
           /\ \A r \in rows, k \in cols :
                 \E i \in 1..Len(tiles) : tiles[i].row = r /\ tiles[i].col = k

C10_Witness ==
    /\ hat.inst = [s |-> 28, orientSeed |-> 0]
    /\ hat.width = 0
    /\ hat.height = 0
    /\ Len(hat.calls) >= 1
    /\ Len(hat.calls[1]) = 24

----------------------------------------------------------------------------
(* Properties of Rosette and lineIntersect *)

\* The phases build returns for each placed motif, in placement order.
MotifPhases == 
    LET places == placements(rosette.inst, rosette.width, rosette.height) IN
    [m \in 1..Len(places) |-> build(rosette.inst, places[m])] \o <<>>

\* The number of commands of phase pi in the first m motifs.
RECURSIVE PhaseStart(_, _, _)
PhaseStart(mp, pi, m) ==
    IF m = 0 THEN 0 ELSE PhaseStart(mp, pi, m - 1) + Len(mp[m][pi])

\* C11: build always returns exactly 7 phases, and tile returns exactly 7
\* merged phases in which phase i is the concatenation, in placement order
\* and without re-sorting, of phase i of every placed motif: its length is
\* the sum of the per-motif lengths of phase i, and the commands of motif m
\* stand, in the order build returned them, right after those of the motifs
\* placed before m.
C11_SevenMergedPhases ==
    /\ \A b \in 1..Len(rosette.built) : Len(rosette.built[b].phases) = 7
    /\ \A c \in 1..Len(rosette.tiled) :
          LET merged == rosette.tiled[c]
              mp     == MotifPhases
          IN /\ Len(merged) = 7
             /\ \A m \in 1..Len(mp) : Len(mp[m]) = 7
             /\ \A pi \in 1..7 :
                   /\ Len(merged[pi]) = PhaseStart(mp, pi, Len(mp))
                   /\ \A m \in 1..Len(mp) :
                         LET start == PhaseStart(mp, pi, m - 1) IN
                         \A k \in 1..Len(mp[m][pi]) :
                             merged[pi][start + k] = mp[m][pi][k]

C11_Witness ==
    /\ Len(rosette.built) = 1
    /\ Len(rosette.tiled) = 1
    /\ rosette.inst.numPetals = 6
    /\ Len(rosette.tiled[1][1]) >= 3 * 12
    /\ Len(rosette.tiled[1][5]) >= 12 * 12
    /\ rosette.tiled[1][1][1].c # rosette.tiled[1][1][4].c

\* The cross product of the direction vectors of the two segments.
IsectCross ==
    LET a == isect.args IN
    (a[3] - a[1]) * (a[8] - a[6]) - (a[4] - a[2]) * (a[7] - a[5])

\* The point (xn / d, yn / d) lies on the line through (x1, y1) and (x2, y2).
OnLine(xn, yn, d, x1, y1, x2, y2) ==
    (xn - x1 * d) * (y2 - y1) = (yn - y1 * d) * (x2 - x1)

\* The point (xn / d, yn / d) lies outside the segment's bounding box.
OutsideBox(xn, yn, d, x1, y1, x2, y2) ==
    \/ xn * d < d * d * Min(x1, x2)
    \/ xn * d > d * d * Max(x1, x2)
    \/ yn * d < d * d * Min(y1, y2)
    \/ yn * d > d * d * Max(y1, y2)

\* C12: for two segments with integer end points lineIntersect returns none
\* exactly when the cross product of the two direction vectors is 0;
\* otherwise it returns a point with rational coordinates that lies on both
\* infinite lines, and no other point of the grid lies on both: the result
\* is not clamped to the segments.
C12_LineIntersect ==
    isect.called =>
        LET a == isect.args
            o == isect.out
        IN /\ (o = Null) <=> (IsectCross = 0)
           /\ o # Null =>
                 /\ o.xn[2] = 0 /\ o.yn[2] = 0 /\ o.d[2] = 0 /\ o.d[1] # 0
                 /\ OnLine(o.xn[1], o.yn[1], o.d[1], a[1], a[2], a[3], a[4])
                 /\ OnLine(o.xn[1], o.yn[1], o.d[1], a[5], a[6], a[7], a[8])
                 /\ \A qx \in Coords, qy \in Coords :
                       (/\ OnLine(qx, qy, 1, a[1], a[2], a[3], a[4])
                        /\ OnLine(qx, qy, 1, a[5], a[6], a[7], a[8]))
                       => (qx * o.d[1] = o.xn[1] /\ qy * o.d[1] = o.yn[1])

C12_Witness ==
    /\ isect.called
    /\ isect.out # Null
    /\ LET a == isect.args
           o == isect.out
       IN /\ OutsideBox(o.xn[1], o.yn[1], o.d[1], a[1], a[2], a[3], a[4])
          /\ OutsideBox(o.xn[1], o.yn[1], o.d[1], a[5], a[6], a[7], a[8])

----------------------------------------------------------------------------
(* Properties of the pattern animation driver: stamps, hold timer, resize *)

\* The scene object that is active after a step of loop(), as it was before
\* the step: the active scene, or the staged scene when the step swaps it in.
SwappedFrom == IF scene # Null /\ scene'.id = scene.id THEN scene ELSE nextScene

\* C13: in every frame in which the active scene is not done, spawnIdx
\* advances by exactly min(tilesPerTick, remaining units) and each newly
\* spawned unit gets born = the current frame number; a unit's born is
\* written once (from -1) and never changes afterwards; in every reachable
\* state the units at index >= spawnIdx have born = -1 and the units below
\* spawnIdx have 1 <= born <= frame, non-decreasing in list order.
C13_BornStamps ==
    /\ [](scene # Null =>
            \A i \in 1..Len(scene.tiles) :
                /\ (i > scene.spawnIdx => scene.tiles[i] = -1)
                /\ (i <= scene.spawnIdx =>
                       /\ 1 <= scene.tiles[i]
                       /\ scene.tiles[i] <= frame
                       /\ \A j \in 1..i : scene.tiles[j] <= scene.tiles[i]))
    /\ [][(IsLoopStep /\ scene' # Null /\ ~SwappedFrom.done) =>
            /\ scene'.spawnIdx = SwappedFrom.spawnIdx
                   + Min(SwappedFrom.tilesPerTick,
                         Len(SwappedFrom.tiles) - SwappedFrom.spawnIdx)
            /\ \A i \in (SwappedFrom.spawnIdx + 1)..scene'.spawnIdx :
                   scene'.tiles[i] = frame']_vars
    /\ [][SameScene =>
            \A i \in 1..Len(scene.tiles) :
                scene.tiles[i] # -1 => scene'.tiles[i] = scene.tiles[i]]_vars

C13_Witness ==
    /\ scene # Null
    /\ Len(scene.tiles) = 3
    /\ scene.tilesPerTick = 2
    /\ scene.spawnIdx = 3
    /\ scene.tiles[1] < scene.tiles[3]
    /\ scene.tiles[3] < frame

\* C14: absent clicks and resizes, holdAge stays 0 until the scene is done,
\* then increases by exactly 1 on every later frame, and the scene is marked
\* fading-out, with a fresh next scene staged, in exactly the frame in which
\* holdAge first exceeds holdLimit, never earlier.
C14_HoldTimer ==
    /\ [](scene # Null =>
            /\ (~scene.done => scene.holdAge = 0)
            /\ (scene.fadingOut <=> scene.holdAge > scene.holdLimit)
            /\ (nextScene # Null <=> scene.fadingOut))
    /\ [][SameScene =>
            /\ scene'.holdAge = (IF scene.done THEN scene.holdAge + 1 ELSE 0)
            /\ (~scene.fadingOut /\ scene'.fadingOut =>
                   /\ scene'.holdAge = scene'.holdLimit + 1
                   /\ nextScene = Null
                   /\ nextScene' # Null
                   /\ IsFresh(nextScene'))]_vars

C14_Witness ==
    /\ scene # Null
    /\ scene.fadingOut
    /\ scene.holdLimit = 2
    /\ scene.holdAge = scene.holdLimit + 1
    /\ nextScene # Null

\* A step that makes a newly built scene the active one and restarts the
\* frame counter.
IsRebuild == frame' = 0 /\ scene' # Null /\ scene'.id \notin LiveIds

\* C17: when the debounced resize fires in any driver state (spawning,
\* holding, or fading out with a staged scene), afterwards the active scene
\* is a freshly built one, no scene is staged and the frame counter is 0; a
\* burst of resize events causes a single rebuild: the rebuild disarms the
\* timer, only a step of the armed timer rebuilds, and a resize event
\* arriving while the timer is armed leaves one armed timer.
C17_ResizeRebuilds ==
    /\ [][IsResizeFire =>
            /\ IsRebuild
            /\ IsFresh(scene')
            /\ nextScene' = Null]_vars
    /\ [][IsRebuild => resizeTimer /\ ~resizeTimer']_vars
    /\ [][resizeTimer /\ resizeTimer' => ~IsRebuild]_vars

C17_Witness ==
    /\ scene # Null
    /\ scene.id = 2
    /\ IsFresh(scene)
    /\ nextScene = Null
    /\ frame = 0
    /\ ~resizeTimer

\* C18: under any interleaving of frame callbacks, clicks and debounced
\* resizes exactly one frame callback is pending at every moment after start,
\* and it is the one rafId names; the frame counter rises by exactly 1 per
\* run of loop() and changes otherwise only when a resize resets it to 0; a
\* resize leaves one pending callback (it cancels the old one).
C18_OnePendingCallback ==
    /\ [](Cardinality(rafPending) = 1 /\ rafId \in rafPending)
    /\ [][frame' # frame =>
            \/ frame' = frame + 1
            \/ (IsResizeFire /\ frame' = 0)]_vars
    /\ [][IsResizeFire => Cardinality(rafPending') = 1]_vars

C18_Witness ==
    /\ scene # Null
    /\ scene.id = 1
    /\ frame = 0
    /\ nextScene = Null
    /\ rafPending = {rafId}

----------------------------------------------------------------------------
(* Properties of the cross-fade and of the driver's progress *)

\* C15: the active scene's alpha always stays within [0, 1]; in every frame
\* of a scene that is not fading out alpha rises by the fixed step, and no
\* further than 1; in every frame of a scene that is fading out alpha falls
\* by the same step while the result is above 0, and the staged scene is
\* swapped in exactly in the frame in which the result is 0 or less; the new
\* scene has alpha 0 at the end of that frame and rises from the next frame
\* on; clicks leave alpha alone.
C15_AlphaRamp ==
    /\ [](scene # Null => scene.alpha \in 0..AlphaOne)
    /\ [][LoopLong =>
            /\ (SameScene <=> ~(scene.fadingOut /\ scene.alpha - SCENE_FADE <= 0))
            /\ (SameScene =>
                   scene'.alpha = (IF scene.fadingOut
                                   THEN scene.alpha - SCENE_FADE
                                   ELSE Min(AlphaOne, scene.alpha + SCENE_FADE)))
            /\ (~SameScene =>
                   /\ scene' # Null
                   /\ scene'.id = nextScene.id
                   /\ scene'.alpha = 0
                   /\ ~scene'.fadingOut)]_vars
    /\ [][ClickLong /\ ~LoopLong => SameScene /\ scene'.alpha = scene.alpha]_vars

C15_Witness ==
    /\ scene # Null
    /\ scene.fadingOut
    /\ scene.holdLimit = LongHold
    /\ scene.holdAge > scene.holdLimit
    /\ scene.alpha = 10

\* The scene object with identity i is the active scene.
Active(i) == scene # Null /\ scene.id = i

\* C16 (as stated): if frame callbacks keep firing and no resize arrives any
\* more, every active scene eventually finishes spawning, is eventually
\* marked fading-out, and is eventually replaced by another scene, with or
\* without clicks.
C16_Original ==
    \A i \in SceneIds :
        /\ Active(i) ~> (Active(i) /\ scene.done)
        /\ Active(i) ~> (Active(i) /\ scene.fadingOut)
        /\ Active(i) ~> ~Active(i)

\* C16 (amended): if frame callbacks keep firing and no resize arrives any
\* more, every active scene is eventually marked fading-out and is eventually
\* replaced by another scene, with or without clicks, for every unit count,
\* tilesPerTick and holdLimit; it eventually finishes spawning or is marked
\* fading-out (by a click) while it still spawns, and such a scene may be
\* replaced with units left unspawned.
C16_Progress ==
    \A i \in SceneIds :
        /\ Active(i) ~> (Active(i) /\ (scene.done \/ (scene.fadingOut /\ ~scene.done)))
        /\ Active(i) ~> (Active(i) /\ scene.fadingOut)
        /\ Active(i) ~> ~Active(i)

C16_Witness ==
    /\ scene # Null
    /\ scene.id = 1
    /\ frame > 0
    /\ ~scene.done
    /\ scene.spawnIdx > 0
    /\ scene.spawnIdx < Len(scene.tiles)
    /\ scene.fadingOut
    /\ scene.alpha - SCENE_FADE <= 0

----------------------------------------------------------------------------
(* Properties of Truchet.generate: draw order and the minimum size *)

\* The cell of log entry e lies within the cell of entry c and is smaller.
CellWithin(e, c) ==
    /\ e.size < c.size
    /\ c.x <= e.x /\ e.x + e.size <= c.x + c.size
    /\ c.y <= e.y /\ e.y + e.size <= c.y + c.size

\* The position in the log of the j-th child (0..3: top-left, top-right,
\* bottom-left, bottom-right) of the split cell at position k, or 0.
ChildAt(log, k, j) ==
    LET half == log[k].size \div 2
        at   == {p \in 1..Len(log) :
                    /\ log[p].x = log[k].x + (j % 2) * half
                    /\ log[p].y = log[k].y + (j \div 2) * half
                    /\ log[p].size = half}
    IN IF at = {} THEN 0 ELSE CHOOSE p \in at : TRUE

\* The cells are visited in pre-order: the cells within a split cell are the
\* ones that follow it directly in the log, its four children are among them
\* in the order top-left, top-right, bottom-left, bottom-right, the first one
\* right after the cell, and the cells between two children lie within the
\* earlier one; a terminal cell has no cell within it.
PreOrder(log) ==
    \A k \in 1..Len(log) :
        LET inside == {q \in 1..Len(log) : CellWithin(log[q], log[k])} IN
        /\ inside = (k + 1)..(k + Cardinality(inside))
        /\ (~log[k].split => inside = {})
        /\ (log[k].split =>
               /\ ChildAt(log, k, 0) = k + 1
               /\ \A j \in 0..2 :
                     /\ ChildAt(log, k, j) < ChildAt(log, k, j + 1)
                     /\ \A q \in (ChildAt(log, k, j) + 1)..(ChildAt(log, k, j + 1) - 1) :
                           CellWithin(log[q], log[ChildAt(log, k, j)])
               /\ ChildAt(log, k, 3) \in inside)

\* Every output of the generator is consumed by the cell that is being
\* processed: a cell starts where the one before it in the log stopped, a
\* terminal cell consumes one output more than its split test (the arc type).
DrawsInOrder(call) ==
    LET log == call.log IN
    /\ Len(log) > 0
    /\ log[1].first = 0
    /\ \A k \in 1..Len(log) :
          LET used == log[k].decision + (IF log[k].split THEN 0 ELSE 1)
          IN IF k < Len(log)
             THEN log[k + 1].first = log[k].first + used
             ELSE call.draws = log[k].first + used

\* C19 (as stated): every processed cell consumes exactly one PRNG output for
\* its split-versus-terminal decision before it recurses into its four
\* children in the order top-left, top-right, bottom-left, bottom-right or
\* emits its arcs, and cells are visited in pre-order, for every cell size
\* including cells with size <= minSize.
C19_Original ==
    \A c \in 1..Len(truchet.calls) :
        /\ \A k \in 1..Len(truchet.calls[c].log) : truchet.calls[c].log[k].decision = 1
        /\ DrawsInOrder(truchet.calls[c])
        /\ PreOrder(truchet.calls[c].log)

\* C19 (amended): every processed cell with size > minSize consumes exactly
\* one PRNG output for its split-versus-terminal decision before it recurses
\* into its four children in the order top-left, top-right, bottom-left,
\* bottom-right or emits its arcs; a cell with size <= minSize consumes none
\* for the decision and is terminal; every terminal cell consumes exactly
\* one output for its arc type; cells are visited in pre-order.
C19_DrawOrder ==
    \A c \in 1..Len(truchet.calls) :
        /\ \A k \in 1..Len(truchet.calls[c].log) :
              LET e == truchet.calls[c].log[k] IN
              /\ e.decision = (IF e.size > truchet.inst.minSize THEN 1 ELSE 0)
              /\ (e.size <= truchet.inst.minSize => ~e.split)
        /\ DrawsInOrder(truchet.calls[c])
        /\ PreOrder(truchet.calls[c].log)
        /\ Len(truchet.calls[c].cmds) =
              2 * Cardinality({k \in 1..Len(truchet.calls[c].log) :
                                  ~truchet.calls[c].log[k].split})

C19_Witness ==
    /\ Len(truchet.calls) >= 1
    /\ truchet.inst.baseSize = 8
    /\ truchet.inst.splitK = 2
    /\ \E k \in 1..Len(truchet.calls[1].log) :
          LET e == truchet.calls[1].log[k] IN e.size = 8 /\ e.split
    /\ \E k \in 1..Len(truchet.calls[1].log) :
          LET e == truchet.calls[1].log[k] IN e.size = 4 /\ ~e.split /\ e.decision = 1
    /\ \E k \in 1..Len(truchet.calls[1].log) :
          LET e == truchet.calls[1].log[k] IN e.size = 2 /\ e.decision = 0

\* C20: when minSize >= baseSize, generate subdivides no cell for any
\* splitProb and any seed: every top-level grid cell is terminal and the
\* output holds exactly two arcs of radius baseSize / 2 per top-level cell.
C20_NoSplitAtOrBelowMin ==
    truchet.inst # Null /\ truchet.inst.minSize >= truchet.inst.baseSize =>
        \A c \in 1..Len(truchet.calls) :
            LET t     == truchet.inst
                cmds  == truchet.calls[c].cmds
                log   == truchet.calls[c].log
                nx    == GridCount(truchet.width, t.baseSize)
                ny    == GridCount(truchet.height, t.baseSize)
            IN /\ \A k \in 1..Len(log) : ~log[k].split /\ log[k].size = t.baseSize
               /\ Len(log) = nx * ny
               /\ {<<log[k].x, log[k].y>> : k \in 1..Len(log)} =
                     {<<(i - 1) * t.baseSize, (j - 1) * t.baseSize>> :
                         i \in 0..(nx - 1), j \in 0..(ny - 1)}
               /\ Len(cmds) = 2 * nx * ny
               /\ \A i \in 1..Len(cmds) : 2 * cmds[i].r = t.baseSize
               /\ \A k \in 1..Len(log) :
                     Cardinality({i \in 1..Len(cmds) :
                         /\ cmds[i].midX = log[k].x + (t.baseSize \div 2)
                         /\ cmds[i].midY = log[k].y + (t.baseSize \div 2)}) = 2

C20_Witness ==
    /\ Len(truchet.calls) >= 1
    /\ truchet.inst.minSize > truchet.inst.baseSize
    /\ truchet.inst.splitK = 4
    /\ truchet.calls[1].seed = 42
    /\ Len(truchet.calls[1].cmds) >= 18

----------------------------------------------------------------------------
(* Termination of the Truchet subdivision *)

\* ceil(log2(b / m)) for whole b, m > 0: the least whole k with b <= m 2^k.
RECURSIVE CeilLog2(_, _)
CeilLog2(b, m) ==
    IF b > m THEN 1 + CeilLog2(b, 2 * m)
    ELSE IF 2 * b <= m THEN CeilLog2(2 * b, m) - 1
    ELSE 0

\* The depth of a cell of size z below its top-level cell of size b, when
\* z = b / 2^k for a k in 0..5; 6 otherwise.
RECURSIVE DepthOf(_, _, _)
DepthOf(z, b, k) ==
    IF k > 5 THEN 6
    ELSE IF z = b THEN k
    ELSE IF b % 2 = 0 THEN DepthOf(z, b \div 2, k + 1)
    ELSE 6

\* C21 (as stated): for minSize > 0 every generate call returns, only cells
\* with size > minSize are split, the depth of every cell below its
\* top-level cell is at most ceil(log2(baseSize / minSize)), and every
\* terminal cell has size baseSize / 2^k with size > minSize / 2.
C21_Original ==
    \A c \in 1..Len(truchet.calls) :
        LET t == truchet.inst  log == truchet.calls[c].log IN
        \A k \in 1..Len(log) :
            /\ (log[k].split => log[k].size > t.minSize)
            /\ DepthOf(log[k].size, t.baseSize, 0) <= CeilLog2(t.baseSize, t.minSize)
            /\ (~log[k].split => 2 * log[k].size > t.minSize)

\* C21 (amended): for minSize > 0 every generate call returns, only cells
\* with size > minSize are split, the depth of every cell below its
\* top-level cell is at most max(0, ceil(log2(baseSize / minSize))), and
\* every terminal cell has size baseSize / 2^k and is a top-level cell or
\* has size > minSize / 2.
C21_Terminates ==
    \A c \in 1..Len(truchet.calls) :
        LET t == truchet.inst  log == truchet.calls[c].log IN
        /\ Len(log) > 0
        /\ \A k \in 1..Len(log) :
            /\ (log[k].split => log[k].size > t.minSize)
            /\ DepthOf(log[k].size, t.baseSize, 0)
                  <= Max(0, CeilLog2(t.baseSize, t.minSize))
            /\ (~log[k].split =>
                   log[k].size = t.baseSize \/ 2 * log[k].size > t.minSize)

\* A call with splitProb = 1 on an instance whose baseSize / minSize is not a
\* power of two: every cell is split down to depth 2 = ceil(log2(12 / 5)).
C21_Witness ==
    /\ Len(truchet.calls) = 1
    /\ truchet.inst.baseSize = 12
    /\ truchet.inst.minSize = 5
    /\ truchet.inst.splitK = 4
    /\ \A k \in 1..Len(truchet.calls[1].log) :
          LET e == truchet.calls[1].log[k] IN ~e.split => e.size = 3
    /\ Len(truchet.calls[1].cmds) = 2 * 16 * 9

----------------------------------------------------------------------------
(* The shift of the odd rows in HatTiling.generateTiles and Rosette.tile *)

IsOdd(n) == n % 2 = 1

\* The centres of the motifs Rosette.tile placed, in placement order: each
\* motif contributes three circles to the first merged phase.
TiledCentres(phases) == [k \in 1..(Len(phases[1]) \div 3) |-> phases[1][3 * k].c]

\* The columns and rows Rosette.tile visits on the instance in use.
TiledCols == rosetteCols(-1, rosette.inst, rosette.width)

TiledRows == rosetteRows(-1, rosette.inst, rosette.height)

\* The centres of row number r (the index into TiledRows) are the columns
\* in order, each shifted by shift half strides.
RowShiftedBy(centres, r, shift) ==
    \A j \in 1..Len(TiledCols) :
        centres[(r - 1) * Len(TiledCols) + j] = <<2 * TiledCols[j] + shift, TiledRows[r]>>

\* C22 (as stated): in generateTiles and in tile every odd-indexed row,
\* including the overscan row -1, has its centres at x = col * stride +
\* stride / 2, and every even row at x = col * stride.
\* (Hat centres are in units of s/4, so colStep is 18; Rosette centres are in
\* units of spacing / 2.)
C22_Original ==
    /\ \A c \in 1..Len(hat.calls) : \A i \in 1..Len(hat.calls[c]) :
          LET tl == hat.calls[c][i] IN
          tl.cx = 18 * tl.col + (IF IsOdd(tl.row) THEN 9 ELSE 0)
    /\ \A c \in 1..Len(rosette.tiled) :
          LET centres == TiledCentres(rosette.tiled[c]) IN
          /\ Len(centres) = Len(TiledCols) * Len(TiledRows)
          /\ \A r \in 1..Len(TiledRows) :
                RowShiftedBy(centres, r, IF IsOdd(TiledRows[r]) THEN 1 ELSE 0)

\* C22 (amended): every even row has its centres at x = col * stride, every
\* odd row with a positive index at x = col * stride + stride / 2, and the
\* odd overscan row -1 at x = col * stride - stride / 2 (row % 2 is -1
\* there): every odd row is shifted by half a stride against the even rows,
\* to the right for positive rows and to the left for row -1.
C22_RowShift ==
    /\ \A c \in 1..Len(hat.calls) : \A i \in 1..Len(hat.calls[c]) :
          LET tl == hat.calls[c][i] IN
          /\ tl.row >= -2
          /\ tl.cx = 18 * tl.col + (IF ~IsOdd(tl.row) THEN 0
                                    ELSE IF tl.row > 0 THEN 9 ELSE -9)
    /\ \A c \in 1..Len(rosette.tiled) :
          LET centres == TiledCentres(rosette.tiled[c]) IN
          /\ Len(centres) = Len(TiledCols) * Len(TiledRows)
          /\ \A r \in 1..Len(TiledRows) :
                /\ TiledRows[r] >= -1
                /\ RowShiftedBy(centres, r, IF ~IsOdd(TiledRows[r]) THEN 0
                                            ELSE IF TiledRows[r] > 0 THEN 1 ELSE -1)

\* tile has placed motifs on row -1 (first centre at -spacing - spacing / 2)
\* and on row 1 (first centre at -spacing + spacing / 2).
C22_Witness ==
    /\ Len(rosette.tiled) = 1
    /\ \E k \in 1..Len(TiledCentres(rosette.tiled[1])) :
          TiledCentres(rosette.tiled[1])[k] = <<-3, -1>>
    /\ \E k \in 1..Len(TiledCentres(rosette.tiled[1])) :
          TiledCentres(rosette.tiled[1])[k] = <<-1, 1>>

----------------------------------------------------------------------------
(* Properties of the xorshift generators *)

AllOnes == <<Half16 - 1, Half16 - 1>>

\* C23: for every seed, buildScene yields an integer tilesPerTick in 2..9
\* and an integer holdLimit in 480..1920, and every output of makeRng is
\* >= 0 and strictly less than 1: the state after a draw, read as an
\* unsigned number, is never 0xFFFFFFFF.
C23_DrawRanges ==
    mkrng.kind = "makeRng" =>
        /\ \A i \in 1..Len(mkrng.outs) :
              /\ mkrng.outs[i][1] \in 0..(Half16 - 1)
              /\ mkrng.outs[i][2] \in 0..(Half16 - 1)
              /\ mkrng.outs[i] # AllOnes
        /\ (mkrng.drawn # Null =>
              /\ mkrng.drawn.tilesPerTick \in 2..9
              /\ mkrng.drawn.holdLimit \in 480..1920)

\* buildScene has drawn the largest tilesPerTick.
C23_Witness ==
    /\ mkrng.kind = "makeRng"
    /\ mkrng.drawn # Null
    /\ mkrng.drawn.tilesPerTick = 9
    /\ Len(mkrng.outs) = MaxDraws

\* C28: for every 32-bit seed other than 0, the state of the generator of
\* Truchet.generate and of makeRng is nonzero after every draw.
C28_StateNonzero ==
    ToInt32(mkrng.seed) # <<0, 0>> =>
        \A i \in 1..Len(mkrng.outs) : mkrng.outs[i] # <<0, 0>>

----------------------------------------------------------------------------
(* The fade-in of a spawned unit *)

\* The fade-in factor at age a, in thirtieths: a / 30 below 30, then 1.
FadeInAt(a) == IF a < 30 THEN a ELSE 30

----------------------------------------------------------------------------
(* Properties of the intro sequence *)

\* A step of tick, and a step of skip (by a click or by Escape).
IsTickStep == intro' # intro /\ intro'.last = "tick"

IsSkipStep == intro' # intro /\ intro'.last \in {"click", "escape"}

\* C25: absent a skip, the phases run in the order MATERIALIZE, HOLD, ZOOM,
\* COMPASS, FADEOUT, one after the other, and a tick leaves a phase exactly
\* when the time since the phase was entered exceeds the phase's duration
\* (2.6 s, 2.0 s, 2.6 s, 4.5 s), for any frame timing.
C25_PhaseOrder ==
    [][(IsTickStep /\ intro.phase < PH_FADEOUT) =>
          /\ intro'.phase \in {intro.phase, intro.phase + 1}
          /\ (intro'.phase = intro.phase + 1
                => intro'.pt > PhaseLimits[intro.phase + 1])
          /\ (intro'.phase = intro.phase
                => intro'.pt <= PhaseLimits[intro.phase + 1])]_vars

\* C26: a skip in a phase before FADEOUT sets the phase to FADEOUT and
\* restarts the phase clock; a skip during FADEOUT changes nothing (the
\* phase clock runs on); no step moves the phase out of FADEOUT.
C26_SkipToFadeout ==
    [][/\ (IsSkipStep /\ intro.phase < PH_FADEOUT
             => intro'.phase = PH_FADEOUT /\ intro'.phaseAge = 0)
       /\ (IsSkipStep /\ intro.phase = PH_FADEOUT
             => /\ intro'.phaseAge >= intro.phaseAge
                /\ intro' = [intro EXCEPT !.last = intro'.last,
                                          !.phaseAge = intro'.phaseAge])
       /\ (intro.phase = PH_FADEOUT => intro'.phase = PH_FADEOUT)]_vars

\* Escape has just restarted the phase clock: the last tick read a phase
\* age of 0.1 to 2.0 s, so it left the phase as it was, before FADEOUT.
C26_Witness ==
    /\ intro.last = "escape"
    /\ intro.phase = PH_FADEOUT
    /\ intro.phaseAge = 0
    /\ intro.globalT0 # Null
    /\ intro.pt \in 1..20
    /\ intro.finished = 0

\* C29: if frame callbacks keep firing with advancing timestamps, a running
\* intro sequence reaches finish(), with or without skips; finish runs once
\* only, hides the canvas and records 'intro-seen', and from then on no tick
\* is scheduled, whatever resize, click or Escape arrives.
C29_Finishes ==
    /\ [](intro.running => <>(intro.finished = 1))
    /\ [](intro.finished <= 1)
    /\ [](intro.finished = 1 =>
             intro.hidden /\ intro.seen /\ intro.pending = {})

\* finish has run and a resize has arrived after it.
C29_Witness ==
    /\ intro.running
    /\ intro.finished = 1
    /\ intro.last = "resize"
    /\ intro.pending = {}

----------------------------------------------------------------------------
(* The active and the staged scene *)

\* C27: in every state of the driver after start the active scene is not
\* null, and it is fading out exactly when a next scene is staged; so the
\* cross-fade of the next frame leaves a scene active (the swap at alpha 0
\* installs the staged scene) and loop does not take its no-scene branch.
C27_SceneStaged ==
    /\ scene # Null
    /\ scene.fadingOut <=> nextScene # Null
    /\ crossFade(scene, nextScene)[1] # Null

\* The frame of a swap: the scene installed at alpha 0 has spawned its first
\* units in the same run of loop.
C27_Witness ==
    /\ scene # Null
    /\ scene.alpha = 0
    /\ scene.spawnIdx > 0
    /\ nextScene = Null
    /\ ~scene.fadingOut

----------------------------------------------------------------------------
(* The frame loops of ClusterAnimation and CivicCompass *)

\* Instance k has at most one frame callback pending, and raf names it.
OneChain(a, k) ==
    /\ Cardinality(PendingOf(a, k)) <= 1
    /\ a.inst[k].raf # 0 <=> PendingOf(a, k) # {}
    /\ \A e \in PendingOf(a, k) : e.h = a.inst[k].raf

IsAnimStep(op, k) == anim' # anim /\ anim'.last = [op |-> op, k |-> k]

\* C30: under any interleaving of visibility changes and frame callbacks each
\* instance has at most one frame callback pending; a visibility report
\* while one is pending (a hide, or a show after a hide) requests no frame;
\* the first frame that runs while the element is hidden clears raf and
\* requests none; the next show requests exactly one.
C30_OneFrameChain ==
    [][\A k \in AnimKinds :
          /\ OneChain(anim', k)
          /\ (IsAnimStep("observe", k) /\ anim.inst[k].raf # 0
                => PendingOf(anim', k) = PendingOf(anim, k))
          /\ (IsAnimStep("frame", k) /\ ~anim.inst[k].visible /\ PendingOf(anim, k) # {}
                /\ PendingOf(anim', k) # PendingOf(anim, k)
                => anim'.inst[k].raf = 0 /\ PendingOf(anim', k) = {})
          /\ (IsAnimStep("observe", k) /\ anim'.inst[k].visible /\ anim.inst[k].raf = 0
                => Cardinality(PendingOf(anim', k)) = 1)]_vars

\* An element hidden and shown again before its pending frame callback ran.
C30_Witness ==
    /\ anim.inst # <<>>
    /\ anim.inst["compass"].visible
    /\ anim.inst["compass"].flips = 2
    /\ anim.inst["compass"].frames >= 1
    /\ Cardinality(PendingOf(anim, "compass")) = 1
    /\ anim.last = [op |-> "observe", k |-> "compass"]

====
